---- MODULE Spec2Model ----
(***************************************************************************)
(* State-machine model of the history engine of GitHub-Stats               *)
(* (src/generate_images.py, src/github_stats.py).                          *)
(*                                                                         *)
(* Conventions                                                             *)
(*  - A date string "YYYY-MM-DD" is the integer YYYYMMDD: Python compares  *)
(*    the zero-padded strings lexicographically, which is the order of     *)
(*    these integers.  date_str[:7] is d \div 100, month[:4] is            *)
(*    m \div 100, f"{month}-28" is m * 100 + 28.                           *)
(*  - A snapshot dict is a record.  Every reader in the source uses        *)
(*    .get(key, default), so a key the dict lacks is the record field      *)
(*    holding that default (synthetic = FALSE, lines_changed_by_week = the *)
(*    empty mapping, lines_*_month = 0).                                   *)
(*  - A Python value that may be None is a sequence of length 0 or 1.      *)
(***************************************************************************)
EXTENDS Integers, Sequences, FiniteSets, TLC

VARIABLES
    file,               \* content of generated/history.json
    clock,              \* last UTC date read by build_snapshot
    run_no,             \* number of invocations of main so far
    pc,                 \* position of the running main()
    history,            \* generate_history: local `history`
    existing_dates,     \* generate_history: local `existing_dates`
    current_snapshot,   \* generate_history: local `current_snapshot` (None = <<>>)
    previous_snapshot,  \* generate_history: local `previous_snapshot` (None = <<>>)
    is_valid,           \* generate_history: local `is_valid`
    reason,             \* generate_history: local `reason`
    backfilled,         \* whether this run called backfill_from_api_data
    warned,             \* whether load_history printed its warning in this run
    last_snapshot,      \* the snapshot build_snapshot returned in the previous run
    saved,              \* whether this run has called save_history
    history_svg,        \* what this run wrote to generated/history.svg
    milestones_svg,     \* what this run wrote to generated/milestones.svg
    achievements_svg,   \* what this run wrote to generated/achievements.svg
    top_langs,          \* generate_history: local `top_langs`, as a set
    forecast,           \* generate_history: the forecast appended to the chart
                        \* series (<<>> before it is computed)
    stats,              \* main: the Stats object `s` (its cached attributes)
    tasks,              \* main: the two coroutines of asyncio.gather
    result_pages,       \* what the GraphQL API answers to repos_overview,
                        \* page by page
    rest                \* the running call of Queries.query_rest

history_vars ==
    <<file, clock, run_no, pc, history, existing_dates, current_snapshot,
      previous_snapshot, is_valid, reason, backfilled, warned,
      last_snapshot, saved, history_svg, milestones_svg,
      achievements_svg, top_langs, forecast>>

stats_vars == <<stats, tasks, result_pages>>

vars == <<history_vars, stats_vars, rest>>

----------------------------------------------------------------------------
\* Bounds of the model.

MaxRuns == 4

\* Program constants.

SUSPICIOUS_DROP_THRESHOLD == 50000
\* SUSPICIOUS_DROP_PERCENTAGE = 0.10, kept as the exact ratio PCT_NUM / PCT_DEN.
\* diff / prev_lines > 0.10 is decided on doubles; for diff <= 50000 (the only
\* case in which the ratio decides) the quotient is either exactly 1/10 or
\* further from it than a double's rounding error, so the comparison is the
\* exact one, PCT_DEN * diff > PCT_NUM * prev_lines.
SUSPICIOUS_DROP_PCT_NUM == 10
SUSPICIOUS_DROP_PCT_DEN == 100

----------------------------------------------------------------------------
\* Dates.

MonthKey(d) == d \div 100
SynthDate(month) == month * 100 + 28
YearOf(month) == month \div 100

\* The UTC days on which the workflow runs: before the 28th, on the 28th, and
\* in the following month.
Days == {20240110, 20240128, 20240202}

----------------------------------------------------------------------------
\* Generic helpers.

Last(s) == s[Len(s)]

Max(a, b) == IF a >= b THEN a ELSE b

RECURSIVE SumSet(_, _)
\* sum of f[x] over x in S
SumSet(S, f) ==
    IF S = {} THEN 0
    ELSE LET x == CHOOSE y \in S : TRUE IN f[x] + SumSet(S \ {x}, f)

RECURSIVE SortedSeqOf(_)
\* sorted(set): the members of a set of integers in ascending order
SortedSeqOf(S) ==
    IF S = {} THEN <<>>
    ELSE LET m == CHOOSE y \in S : \A z \in S : y <= z
         IN <<m>> \o SortedSeqOf(S \ {m})

Range(s) == {s[i] : i \in 1..Len(s)}

DatesOf(s) == {s[i].date : i \in 1..Len(s)}

----------------------------------------------------------------------------
\* What the GitHub API returns to one run (the input of build_snapshot).

\* Weekly contributor statistics, week-start date -> <<additions, deletions>>,
\* as merged by Stats._fetch_contributor_stats.  Later responses may be
\* incomplete (fewer weeks than an earlier one): that is the case
\* validate_snapshot exists for.
WkNone == <<>>
WkDec == (20231204 :> <<30000, 10000>>)
WkJanLow == WkDec @@ (20240101 :> <<20000, 5000>>) @@ (20240108 :> <<25000, 5000>>)
WkJan == WkDec @@ (20240101 :> <<20000, 5000>>) @@ (20240108 :> <<30000, 5000>>)
WkBigLow == WkDec @@ (20240101 :> <<400000, 100000>>)
WkBig == WkDec @@ (20240101 :> <<400000, 100000>>) @@ (20240108 :> <<50000, 10000>>)

Weeklies == {WkNone, WkDec, WkJanLow, WkJan, WkBigLow, WkBig}

\* The other fields of a snapshot, from Stats.get_stats and
\* Stats.contributions_by_year.
ApiProfiles ==
    { [ stargazers |-> 12, forks |-> 3, repo_count |-> 7,
        contributions_by_year |-> (2023 :> 120) @@ (2024 :> 30),
        languages |-> [ Python |-> [size |-> 800, prop |-> 80, color |-> "#3572A5"],
                        Shell  |-> [size |-> 200, prop |-> 20, color |-> "#89e051"] ] ] }

\* the totals taken from another response than the weekly values, one that
\* lacks the earliest week.
lines_changed_separately(weekly) ==
    LET later == {w \in DOMAIN weekly : \E v \in DOMAIN weekly : v < w}
    IN  << SumSet(later, [w \in DOMAIN weekly |-> weekly[w][1]]),
           SumSet(later, [w \in DOMAIN weekly |-> weekly[w][2]]) >>

\* Stats._fetch_contributor_stats: total_adds and total_dels are the sums of the
\* same weekly values that make up lines_changed_by_week.
lines_changed(weekly) ==
    << SumSet(DOMAIN weekly, [w \in DOMAIN weekly |-> weekly[w][1]]),
       SumSet(DOMAIN weekly, [w \in DOMAIN weekly |-> weekly[w][2]]) >>

\* Stats.build_snapshot
build_snapshot(today, weekly, api) ==
    [ date |-> today,
      synthetic |-> FALSE,
      stargazers |-> api.stargazers,
      forks |-> api.forks,
      total_contributions |->
          SumSet(DOMAIN api.contributions_by_year, api.contributions_by_year),
      repo_count |-> api.repo_count,
      lines_added |-> lines_changed(weekly)[1],
      lines_deleted |-> lines_changed(weekly)[2],
      lines_added_month |-> 0,
      lines_deleted_month |-> 0,
      languages |-> api.languages,
      contributions_by_year |-> api.contributions_by_year,
      lines_changed_by_week |-> weekly ]

----------------------------------------------------------------------------
\* The history file.

AbsentFile == [kind |-> "absent", items |-> <<>>]

\* Contents json.load does not turn into a list of snapshot dicts.
MalformedKinds == {"invalid_json", "not_list", "bad_elements", "bad_dates"}

MalformedFile(k) == [kind |-> k, items |-> <<>>]

\* sorted(data, key=lambda s: s.get("date", "")): Python's sort is stable.
RECURSIVE InsertByDate(_, _)
InsertByDate(s, x) ==
    IF s = <<>> THEN <<x>>
    ELSE IF Last(s).date <= x.date THEN Append(s, x)
    ELSE Append(InsertByDate(SubSeq(s, 1, Len(s) - 1), x), Last(s))

\* SortByDate without the sort: the list in the order it has.
SortByDate_noop(s) == s

RECURSIVE SortByDate(_)
SortByDate(s) ==
    IF s = <<>> THEN <<>>
    ELSE InsertByDate(SortByDate(SubSeq(s, 1, Len(s) - 1)), Last(s))

\* json.dump(snapshots, f, indent=2): the list, in the order given.  JSON turns
\* tuples into lists and non-string keys into strings; build_snapshot has
\* already done both (list(v), str(k)), and the model does not tell a tuple
\* from a list, so json.load gives back snapshots equal to those written.
JsonDump(snapshots) == [kind |-> "list", items |-> snapshots]

\* load_history: the list returned, whether the warning was printed, and
\* whether an exception left the function.
\*   absent        os.path.isfile is false
\*   list          a JSON list of snapshot objects
\*   invalid_json  json.load raises JSONDecodeError, which is caught
\*   not_list      isinstance(data, list) is false: falls through to return []
\*   bad_elements  s.get raises AttributeError (e.g. [1]), which is not caught
\*   bad_dates     sorted raises TypeError (e.g. dates 1 and "x"), not caught
load_history(f) ==
    CASE f.kind = "absent" ->
            [raised |-> FALSE, warned |-> FALSE, result |-> <<>>]
      [] f.kind = "list" ->
            [raised |-> FALSE, warned |-> FALSE, result |-> SortByDate(f.items)]
      [] f.kind = "invalid_json" ->
            [raised |-> FALSE, warned |-> TRUE, result |-> <<>>]
      [] f.kind = "not_list" ->
            [raised |-> FALSE, warned |-> FALSE, result |-> <<>>]
      [] f.kind \in {"bad_elements", "bad_dates"} ->
            [raised |-> TRUE, warned |-> FALSE, result |-> <<>>]

----------------------------------------------------------------------------
\* validate_snapshot(current, previous); previous is <<>> for None.

LinesTotal(snap) == snap.lines_added + snap.lines_deleted

\* validate_snapshot rejecting only when both thresholds are exceeded.
validate_snapshot_both(current, previous) ==
    IF previous = <<>> THEN
        [ok |-> TRUE, reason |-> "No previous snapshot to compare"]
    ELSE
        LET curr_lines == LinesTotal(current)
            prev_lines == LinesTotal(previous[1])
            diff == prev_lines - curr_lines
        IN  IF curr_lines < prev_lines
               /\ diff > SUSPICIOUS_DROP_THRESHOLD
               /\ prev_lines > 0
               /\ SUSPICIOUS_DROP_PCT_DEN * diff
                    > SUSPICIOUS_DROP_PCT_NUM * prev_lines
            THEN [ok |-> FALSE, reason |-> "Suspicious drop in line count"]
            ELSE [ok |-> TRUE, reason |-> "Validation passed"]

\* validate_snapshot with inclusive thresholds (>= for >).
validate_snapshot_inclusive(current, previous) ==
    IF previous = <<>> THEN
        [ok |-> TRUE, reason |-> "No previous snapshot to compare"]
    ELSE
        LET curr_lines == LinesTotal(current)
            prev_lines == LinesTotal(previous[1])
            diff == prev_lines - curr_lines
        IN  IF curr_lines < prev_lines
               /\ ( diff >= SUSPICIOUS_DROP_THRESHOLD
                    \/ ( prev_lines > 0
                         /\ SUSPICIOUS_DROP_PCT_DEN * diff
                              >= SUSPICIOUS_DROP_PCT_NUM * prev_lines ) )
            THEN [ok |-> FALSE, reason |-> "Suspicious drop in line count"]
            ELSE [ok |-> TRUE, reason |-> "Validation passed"]

validate_snapshot(current, previous) ==
    IF previous = <<>> THEN
        [ok |-> TRUE, reason |-> "No previous snapshot to compare"]
    ELSE
        LET curr_lines == LinesTotal(current)
            prev_lines == LinesTotal(previous[1])
            diff == prev_lines - curr_lines
        IN  IF curr_lines < prev_lines
               /\ ( diff > SUSPICIOUS_DROP_THRESHOLD
                    \/ ( prev_lines > 0
                         /\ SUSPICIOUS_DROP_PCT_DEN * diff
                              > SUSPICIOUS_DROP_PCT_NUM * prev_lines ) )
            THEN [ok |-> FALSE, reason |-> "Suspicious drop in line count"]
            ELSE [ok |-> TRUE, reason |-> "Validation passed"]

----------------------------------------------------------------------------
\* backfill_from_api_data(snapshot, existing_dates)

\* backfill_from_api_data without the running totals: each synthetic snapshot
\* carries its own month's sums.
backfill_from_api_data_monthly(snapshot, existing) ==
    LET weekly == snapshot.lines_changed_by_week
        contribs_by_year == snapshot.contributions_by_year
        \* isinstance(changes, (list, tuple)) and len(changes) >= 2
        wellformed == {w \in DOMAIN weekly : Len(weekly[w]) >= 2}
        monthly_adds(m) ==
            SumSet({w \in wellformed : MonthKey(w) = m},
                   [w \in wellformed |-> weekly[w][1]])
        monthly_dels(m) ==
            SumSet({w \in wellformed : MonthKey(w) = m},
                   [w \in wellformed |-> weekly[w][2]])
        all_months == SortedSeqOf({MonthKey(w) : w \in wellformed})
        num_months == Len(all_months)
        total_repo_count == snapshot.repo_count
        \* the running totals after the month at position i (month_idx = i - 1);
        \* they advance for skipped months too
        cumulative_adds(i) ==
            SumSet(1..i, [j \in 1..num_months |-> monthly_adds(all_months[j])])
        cumulative_dels(i) ==
            SumSet(1..i, [j \in 1..num_months |-> monthly_dels(all_months[j])])
        year_contribs(m) ==
            IF YearOf(m) \in DOMAIN contribs_by_year
            THEN contribs_by_year[YearOf(m)] ELSE 0
        synth(i) ==
            [ date |-> SynthDate(all_months[i]),
              synthetic |-> TRUE,
              stargazers |-> snapshot.stargazers,
              forks |-> snapshot.forks,
              total_contributions |-> year_contribs(all_months[i]),
              repo_count |-> Max(1, (total_repo_count * i) \div num_months),
              lines_added |-> monthly_adds(all_months[i]),
              lines_deleted |-> monthly_dels(all_months[i]),
              lines_added_month |-> monthly_adds(all_months[i]),
              lines_deleted_month |-> monthly_dels(all_months[i]),
              languages |-> snapshot.languages,
              contributions_by_year |-> contribs_by_year,
              lines_changed_by_week |-> <<>> ]
        Kept(s) == s.date \notin existing
    IN  SelectSeq([i \in 1..num_months |-> synth(i)], Kept)

backfill_from_api_data(snapshot, existing) ==
    LET weekly == snapshot.lines_changed_by_week
        contribs_by_year == snapshot.contributions_by_year
        \* isinstance(changes, (list, tuple)) and len(changes) >= 2
        wellformed == {w \in DOMAIN weekly : Len(weekly[w]) >= 2}
        monthly_adds(m) ==
            SumSet({w \in wellformed : MonthKey(w) = m},
                   [w \in wellformed |-> weekly[w][1]])
        monthly_dels(m) ==
            SumSet({w \in wellformed : MonthKey(w) = m},
                   [w \in wellformed |-> weekly[w][2]])
        all_months == SortedSeqOf({MonthKey(w) : w \in wellformed})
        num_months == Len(all_months)
        total_repo_count == snapshot.repo_count
        \* the running totals after the month at position i (month_idx = i - 1);
        \* they advance for skipped months too
        cumulative_adds(i) ==
            SumSet(1..i, [j \in 1..num_months |-> monthly_adds(all_months[j])])
        cumulative_dels(i) ==
            SumSet(1..i, [j \in 1..num_months |-> monthly_dels(all_months[j])])
        year_contribs(m) ==
            IF YearOf(m) \in DOMAIN contribs_by_year
            THEN contribs_by_year[YearOf(m)] ELSE 0
        synth(i) ==
            [ date |-> SynthDate(all_months[i]),
              synthetic |-> TRUE,
              stargazers |-> snapshot.stargazers,
              forks |-> snapshot.forks,
              total_contributions |-> year_contribs(all_months[i]),
              repo_count |-> Max(1, (total_repo_count * i) \div num_months),
              lines_added |-> cumulative_adds(i),
              lines_deleted |-> cumulative_dels(i),
              lines_added_month |-> monthly_adds(all_months[i]),
              lines_deleted_month |-> monthly_dels(all_months[i]),
              languages |-> snapshot.languages,
              contributions_by_year |-> contribs_by_year,
              lines_changed_by_week |-> <<>> ]
        Kept(s) == s.date \notin existing
    IN  SelectSeq([i \in 1..num_months |-> synth(i)], Kept)

----------------------------------------------------------------------------
\* generate_history, lines 267-289: the pieces of the validate-and-upsert step.

\* find_previous without the filter on today's date: history[-1].
find_previous_unfiltered(hist, today) ==
    IF hist = <<>> THEN <<>> ELSE <<Last(hist)>>

\* previous_snapshots = [snap for snap in history if snap.get("date") != today]
\* previous_snapshot = previous_snapshots[-1] if previous_snapshots else None
find_previous(hist, today) ==
    LET NotToday(snap) == snap.date # today
        previous_snapshots == SelectSeq(hist, NotToday)
    IN  IF previous_snapshots = <<>> THEN <<>> ELSE <<Last(previous_snapshots)>>

\* upsert whose removal of today's snapshot is not under the else.
upsert_drops_today(hist, current, valid) ==
    LET NotToday(snap) == snap.date # current.date
    IN  IF ~valid THEN SelectSeq(hist, NotToday)
        ELSE Append(SelectSeq(hist, NotToday), current)

\* upsert whose filter is inverted (== for !=).
upsert_keeps_today(hist, current, valid) ==
    LET IsToday(snap) == snap.date = current.date
    IN  IF ~valid THEN hist
        ELSE Append(SelectSeq(hist, IsToday), current)

\* upsert that appends without removing today's snapshot.
upsert_append_only(hist, current, valid) ==
    IF ~valid THEN hist ELSE Append(hist, current)

\* the if/else on is_valid: the list `history` names afterwards
upsert(hist, current, valid) ==
    LET NotToday(snap) == snap.date # current.date
    IN  IF ~valid THEN hist
        ELSE Append(SelectSeq(hist, NotToday), current)

\* the backfill guard dropped: backfill in every run.
first_run_always(hist) == TRUE

\* generate_history, line 261: the backfill guard
first_run(hist) == Len(hist) = 0

\* the rejection branch returning from generate_history.
after_validation_return(valid) == IF valid THEN "save" ELSE "milestones"

\* where generate_history continues after the if/else on is_valid: neither
\* branch returns or raises, both reach the sort and save_history
after_validation(valid) == "save"

\* an image file that the run has not written yet
NotWritten ==
    [kind |-> "none", dates |-> <<>>, forecast_dates |-> <<>>, x_labels |-> <<>>]

----------------------------------------------------------------------------
\* Arithmetic of the forecast.
\*
\* A Python float is an exact rational <<numerator, denominator>> in lowest
\* terms with a positive denominator.  The series the forecast reads are
\* integers (line counts, stars) or proportions taken as whole percentages;
\* the rounding of binary64 is not modelled.

Abs(x) == IF x < 0 THEN -x ELSE x

RECURSIVE GCD(_, _)
GCD(a, b) == IF b = 0 THEN a ELSE GCD(b, a % b)

Rat(n, d) ==
    LET g == GCD(Abs(n), Abs(d))
        s == IF d < 0 THEN -1 ELSE 1
    IN  <<(s * n) \div g, (s * d) \div g>>

RInt(i) == <<i, 1>>

RAdd(a, b) == Rat(a[1] * b[2] + b[1] * a[2], a[2] * b[2])

\* the product, with the common factors taken out before multiplying
RMul(a, b) ==
    LET g1 == GCD(Abs(a[1]), b[2])
        g2 == GCD(Abs(b[1]), a[2])
    IN  Rat((a[1] \div g1) * (b[1] \div g2), (a[2] \div g2) * (b[2] \div g1))

RDiv(a, b) == RMul(a, Rat(b[2], b[1]))

RLess(a, b) == a[1] * b[2] < b[1] * a[2]

RLeq(a, b) == a[1] * b[2] <= b[1] * a[2]

RMax(a, b) == IF RLess(a, b) THEN b ELSE a

RMin(a, b) == IF RLess(b, a) THEN b ELSE a

RAbs(a) == <<Abs(a[1]), a[2]>>

\* int(x): truncation towards zero
Trunc(a) == IF a[1] >= 0 THEN a[1] \div a[2] ELSE -((-a[1]) \div a[2])

RECURSIVE RSumSet(_, _)
\* sum(f[x] for x in S) of rationals
RSumSet(S, f) ==
    IF S = {} THEN RInt(0)
    ELSE LET x == CHOOSE y \in S : TRUE IN RAdd(f[x], RSumSet(S \ {x}, f))

\* min(S) of a non-empty set of rationals
RMinSet(S) == CHOOSE x \in S : \A y \in S : RLeq(x, y)

\* datetime.strptime(s, "%Y-%m-%d"), as the proleptic Gregorian ordinal of the
\* day (date.toordinal(): 0001-01-01 is day 1)
strptime(s) ==
    LET y0 == s \div 10000
        m == (s \div 100) % 100
        d == s % 100
        y == IF m <= 2 THEN y0 - 1 ELSE y0
        era == y \div 400
        yoe == y - era * 400
        mp == IF m > 2 THEN m - 3 ELSE m + 9
        doy == (153 * mp + 2) \div 5 + d - 1
        doe == yoe * 365 + yoe \div 4 - yoe \div 100 + doy
    IN  era * 146097 + doe - 305

\* strftime("%Y-%m-%d") of the day with the given ordinal
strftime(n) ==
    LET z == n + 305
        era == z \div 146097
        doe == z - era * 146097
        yoe == (doe - doe \div 1460 + doe \div 36524 - doe \div 146096) \div 365
        doy == doe - (365 * yoe + yoe \div 4 - yoe \div 100)
        mp == (5 * doy + 2) \div 153
        d == doy - (153 * mp + 2) \div 5 + 1
        m == IF mp < 10 THEN mp + 3 ELSE mp - 9
        y == yoe + era * 400 + (IF m <= 2 THEN 1 ELSE 0)
    IN  y * 10000 + m * 100 + d

\* last_date_obj + timedelta(days=days), formatted
DatePlus(date, days) == strftime(strptime(date) + days)

\* (d_last - d_first).days
DaysBetween(d_first, d_last) == strptime(d_last) - strptime(d_first)

----------------------------------------------------------------------------
\* generate_history, lines 310-344: the languages of the chart.

MAX_CHART_LANGS == 8

Min(a, b) == IF a <= b THEN a ELSE b

\* sorted(S, key=..., reverse=True)[:n] as a set.  Members with equal keys
\* come out in the order the sort met them: the key order of the JSON objects
\* for a dict, the hash order of the process for a set.  The model keeps
\* neither, so every choice among equal keys is a possible result.
TopN(S, key, n) ==
    { T \in SUBSET S :
        /\ Cardinality(T) = Min(n, Cardinality(S))
        /\ \A t \in T, u \in S \ T : key[t] >= key[u] }

LangNames(hist) == UNION {DOMAIN hist[i].languages : i \in 1..Len(hist)}

\* lang_totals[name]: the sizes of the language summed over the snapshots
lang_totals(hist) ==
    [ name \in LangNames(hist) |->
        SumSet({i \in 1..Len(hist) : name \in DOMAIN hist[i].languages},
               [i \in 1..Len(hist) |->
                   IF name \in DOMAIN hist[i].languages
                   THEN hist[i].languages[name].size ELSE 0]) ]

RECURSIVE ever_top5_langs(_)
\* the possible values of ever_top5_langs: per snapshot, snap_sorted[:5]
ever_top5_langs(hist) ==
    IF hist = <<>> THEN {{}}
    ELSE LET snap_langs == Last(hist).languages
             size == [name \in DOMAIN snap_langs |-> snap_langs[name].size]
         IN  { a \cup b : a \in ever_top5_langs(SubSeq(hist, 1, Len(hist) - 1)),
                          b \in TopN(DOMAIN snap_langs, size, 5) }

\* the candidates left as they are, without the sort and the cut
cut_candidates_uncut(candidate_langs, totals) == {candidate_langs}

\* sorted(candidate_langs, key=lang_totals, reverse=True)[:MAX_CHART_LANGS]
cut_candidates(candidate_langs, totals) ==
    TopN(candidate_langs, totals, MAX_CHART_LANGS)

\* the possible values of top_langs, as sets
select_langs(hist) ==
    LET totals == lang_totals(hist)
    IN  UNION { cut_candidates(global_top8 \cup ever, totals) :
                  global_top8 \in TopN(LangNames(hist), totals, MAX_CHART_LANGS),
                  ever \in ever_top5_langs(hist) }

----------------------------------------------------------------------------
\* generate_history, lines 346-509: the time series and their forecast.

MIN_FORECAST_DAYS == 14
MAX_FORECAST_DAYS == 365

\* total_a, total_d of one snapshot: the weekly sums when the snapshot has
\* weekly data, its lines_added / lines_deleted otherwise
snapshot_lines(snap, k) ==
    LET weekly == snap.lines_changed_by_week
        wellformed == {w \in DOMAIN weekly : Len(weekly[w]) >= 2}
    IN  IF DOMAIN weekly # {}
        THEN SumSet(wellformed, [w \in wellformed |-> weekly[w][k]])
        ELSE IF k = 1 THEN snap.lines_added ELSE snap.lines_deleted

monthly_adds_series(hist) == [i \in 1..Len(hist) |-> snapshot_lines(hist[i], 1)]

monthly_dels_series(hist) == [i \in 1..Len(hist) |-> snapshot_lines(hist[i], 2)]

\* lang_series[lang]: langs.get(lang, {}).get("prop", 0.0) per snapshot
lang_series(hist, lang) ==
    [ i \in 1..Len(hist) |->
        IF lang \in DOMAIN hist[i].languages
        THEN hist[i].languages[lang].prop ELSE 0 ]

stars_series(hist) == [i \in 1..Len(hist) |-> hist[i].stargazers]

\* _linreg_slope with the mean term left out: m * sxy / denom.
linreg_slope_raw(ys) ==
    LET m == Len(ys)
        sx == (m * (m - 1)) \div 2
        sx2 == (m * (m - 1) * (2 * m - 1)) \div 6
        sxy == SumSet(1..m, [i \in 1..m |-> (i - 1) * ys[i]])
        denom == m * sx2 - sx * sx
    IN  IF m < 2 THEN RInt(0)
        ELSE IF denom # 0 THEN Rat(m * sxy, denom) ELSE RInt(0)

\* _linreg_slope(ys): the least-squares slope of ys[0..m-1] against 0..m-1.
\* sx and sx2 are whole numbers although the source divides floats.
linreg_slope(ys) ==
    LET m == Len(ys)
        sx == (m * (m - 1)) \div 2
        sx2 == (m * (m - 1) * (2 * m - 1)) \div 6
        sy == SumSet(1..m, ys)
        sxy == SumSet(1..m, [i \in 1..m |-> (i - 1) * ys[i]])
        denom == m * sx2 - sx * sx
    IN  IF m < 2 THEN RInt(0)
        ELSE IF denom # 0 THEN Rat(m * sxy - sx * sy, denom) ELSE RInt(0)

\* the slope of additions / deletions taken as it is, negative or not.
floor_slope_none(slope) == slope

\* max(0.0, _linreg_slope(...))
floor_slope(slope) == RMax(RInt(0), slope)

\* the horizon without its lower clamp.
clamp_days_upper(days) == RMin(days, RInt(MAX_FORECAST_DAYS))

\* h1_days = max(float(MIN_FORECAST_DAYS), ...); min(h1_days, float(MAX_FORECAST_DAYS))
clamp_days(days) ==
    RMin(RMax(RInt(MIN_FORECAST_DAYS), days), RInt(MAX_FORECAST_DAYS))

\* the forecast of a count without its floor at 0.
forecast_count_unfloored(base, mult, slope) ==
    Trunc(RAdd(RInt(base), RMul(mult, slope)))

\* max(0, int(base + mult * slope)), mult being h1_steps or h2_steps
forecast_count(base, mult, slope) ==
    Max(0, Trunc(RAdd(RInt(base), RMul(mult, slope))))

\* the rescaling of the raw language forecasts to the tracked total of the
\* last real snapshot, skipped unless both totals are positive
renormalise(raw, real_total) ==
    LET raw_total == RSumSet(DOMAIN raw, raw)
    IN  IF RLess(RInt(0), raw_total) /\ RLess(RInt(0), real_total)
        THEN [lang \in DOMAIN raw |-> RMul(raw[lang], RDiv(real_total, raw_total))]
        ELSE raw

\* The forecast of generate_history for the history hist and the tracked
\* languages top: the two forecast dates and, per forecast point, the values
\* appended to the series, with the intermediate values under their names.
project(hist, top) ==
    LET n_real == Len(hist)
        adds == monthly_adds_series(hist)
        dels == monthly_dels_series(hist)
        stars == stars_series(hist)
        avg_delta_adds == floor_slope(linreg_slope(adds))
        avg_delta_dels == floor_slope(linreg_slope(dels))
        base_adds == adds[n_real]
        base_dels == dels[n_real]
        with_langs == {i \in 1..n_real : DOMAIN hist[i].languages # {}}
        \* position of the first snapshot with language data, n_real + 1 if none
        first_lang_idx ==
            IF with_langs = {} THEN n_real + 1
            ELSE CHOOSE i \in with_langs : \A j \in with_langs : i <= j
        lang_trends ==
            [ lang \in top |->
                LET vals == SubSeq(lang_series(hist, lang), first_lang_idx, n_real)
                IN  IF Len(vals) >= 2 THEN linreg_slope(vals) ELSE RInt(0) ]
        base_val == [lang \in top |-> RInt(lang_series(hist, lang)[n_real])]
        stars_slope == linreg_slope(stars)
        base_stars == stars[n_real]
        avg_step_days ==
            IF n_real > 1
            THEN RMax(RInt(1),
                      Rat(DaysBetween(hist[1].date, hist[n_real].date), n_real - 1))
            ELSE RInt(1)
        candidate_steps ==
            ( IF RLess(RInt(0), avg_delta_adds) /\ base_adds > 0
              THEN {RDiv(RMul(Rat(1, 10), RInt(base_adds)), avg_delta_adds)}
              ELSE {} )
            \cup
            { RDiv(RMul(Rat(1, 10), base_val[lang]), RAbs(lang_trends[lang])) :
                lang \in {l \in top : /\ RLess(RInt(0), RAbs(lang_trends[l]))
                                      /\ RLess(RInt(0), base_val[l])} }
        steps == IF candidate_steps # {} THEN RMinSet(candidate_steps)
                 ELSE RDiv(RInt(MIN_FORECAST_DAYS), avg_step_days)
        h1_days == clamp_days(RMul(steps, avg_step_days))
        h1_steps == RDiv(h1_days, avg_step_days)
        h2_steps == RMul(h1_steps, RInt(2))
        real_total == RSumSet(top, base_val)
        point(mult) ==
            [ adds |-> forecast_count(base_adds, mult, avg_delta_adds),
              dels |-> forecast_count(base_dels, mult, avg_delta_dels),
              stars |-> forecast_count(base_stars, mult, stars_slope),
              langs |-> renormalise(
                  [ lang \in top |->
                      RMax(RInt(0), RAdd(base_val[lang], RMul(mult, lang_trends[lang]))) ],
                  real_total) ]
    IN  [ dates |-> << DatePlus(hist[n_real].date, Trunc(h1_days)),
                       DatePlus(hist[n_real].date, Trunc(RMul(h1_days, RInt(2)))) >>,
          points |-> <<point(h1_steps), point(h2_steps)>>,
          avg_delta_adds |-> avg_delta_adds,
          avg_delta_dels |-> avg_delta_dels,
          stars_slope |-> stars_slope,
          lang_trends |-> lang_trends,
          avg_step_days |-> avg_step_days,
          h1_days |-> h1_days,
          h1_steps |-> h1_steps,
          h2_steps |-> h2_steps ]

----------------------------------------------------------------------------
\* generate_history, lines 511-840: the x-axis of the chart.  Pixel
\* positions are Python floats, here exact rationals.

svg_width == 1000
margin_left == 90
margin_right == 220
chart_w == svg_width - margin_left - margin_right
min_label_spacing == 70

\* step_x = chart_w / max(n - 1, 1)
step_x(n) == RDiv(RInt(chart_w), RInt(Max(n - 1, 1)))

\* x = margin_left + i * step_x, i counted from 0
label_x(n, i) == RAdd(RInt(margin_left), RMul(RInt(i), step_x(n)))

\* label_step * step_x < min_label_spacing
TooNarrow(n, label_step) ==
    RLess(RMul(RInt(label_step), step_x(n)), RInt(min_label_spacing))

RECURSIVE widen_label_step(_, _)
\* while label_step > 1 and label_step * step_x < min_label_spacing:
\*     label_step += 1
widen_label_step(n, label_step) ==
    IF label_step > 1 /\ TooNarrow(n, label_step)
    THEN widen_label_step(n, label_step + 1)
    ELSE label_step

\* lines 801-806
label_step_of(n) ==
    LET label_step == widen_label_step(n, Max(1, n \div 10))
    IN  IF TooNarrow(n, label_step)
        THEN Max(1, Trunc(RDiv(RInt(min_label_spacing), step_x(n))) + 1)
        ELSE label_step

\* lines 808-812: the indices asked for, every label_step-th real point and,
\* behind a forecast, the last real point and the forecast points
shown_indices(n, n_real) ==
    {i \in 0..(n_real - 1) : i % label_step_of(n) = 0}
    \cup (IF n > n_real THEN {n_real - 1} \cup n_real..(n - 1) ELSE {})

\* lines 796-797 and 819-825: the text of the label at index i.  A forecast
\* label is strftime("%b %d, %Y") of its date, a real one the date or its
\* first 7 characters: the text is kept as the pair of format and value.
label_text_of(dates, n_real, i) ==
    LET date_prefixes == {MonthKey(dates[j]) : j \in 1..n_real}
        use_full_date == Cardinality(date_prefixes) <= 1
    IN  IF i >= n_real THEN <<"%b %d, %Y", dates[i + 1]>>
        ELSE IF use_full_date THEN <<"%Y-%m-%d", dates[i + 1]>>
        ELSE <<"%Y-%m", MonthKey(dates[i + 1])>>

\* lines 827-831: skip labels that are too close together or identical to
\* the previous one
skip_label(n, x, label_text, last_rendered_x, last_rendered_label) ==
    \/ /\ last_rendered_label # <<>>
       /\ RLess(RAdd(x, RMul(RInt(-1), last_rendered_x)), RInt(min_label_spacing))
    \/ label_text = last_rendered_label

RECURSIVE draw_x_labels(_, _, _, _)
\* lines 814-840 after the first k of the sorted shown indices: the indices
\* whose <text> was appended, last_rendered_x and last_rendered_label ("" is
\* the empty tuple)
draw_x_labels(dates, n_real, indices, k) ==
    IF k = 0
    THEN [ rendered |-> <<>>,
           last_rendered_x |-> RInt(-999),
           last_rendered_label |-> <<>> ]
    ELSE LET before == draw_x_labels(dates, n_real, indices, k - 1)
             n == Len(dates)
             i == indices[k]
             x == label_x(n, i)
             label_text == label_text_of(dates, n_real, i)
         IN  IF skip_label(n, x, label_text, before.last_rendered_x,
                           before.last_rendered_label)
             THEN before
             ELSE [ rendered |-> Append(before.rendered, i),
                    last_rendered_x |-> x,
                    last_rendered_label |-> label_text ]

\* the indices (from 0) of the points whose x-axis label history.svg shows
x_axis_labels(dates, n_real) ==
    LET indices == SortedSeqOf(shown_indices(Len(dates), n_real))
    IN  draw_x_labels(dates, n_real, indices, Len(indices)).rendered

\* history.svg without the guard on the number of data points.
render_history_unguarded(hist, fc) ==
    LET dates == [i \in 1..Len(hist) |-> hist[i].date]
        forecast_dates == IF fc = <<>> THEN <<>> ELSE fc[1].dates
    IN  [ kind |-> "chart",
          dates |-> dates,
          forecast_dates |-> forecast_dates,
          x_labels |-> x_axis_labels(dates \o forecast_dates, Len(hist)) ]

\* generate_history, lines 296-308 and 511-end: what history.svg shows, the
\* placeholder or the chart of the real dates followed by the forecast
\* dates, with the x-axis labels that were drawn
render_history(hist, fc) ==
    LET dates == [i \in 1..Len(hist) |-> hist[i].date]
        forecast_dates == IF fc = <<>> THEN <<>> ELSE fc[1].dates
    IN  [ kind |-> IF Len(hist) < 2 THEN "placeholder" ELSE "chart",
          dates |-> dates,
          forecast_dates |-> forecast_dates,
          x_labels |-> IF Len(hist) < 2 THEN <<>>
                       ELSE x_axis_labels(dates \o forecast_dates, Len(hist)) ]

----------------------------------------------------------------------------
\* generate_milestones, lines 1017-1101: the milestones of a history.

CONTRIB_THRESHOLDS == {100, 250, 500, 1000, 1500, 2000, 2500}
STAR_THRESHOLDS == {1, 5, 10, 20, 30, 50}
REPO_THRESHOLDS == {5, 10, 25, 50}

\* a threshold counted as met only when it is exceeded.
meets_strict(value, thr) == value > thr

\* total_contribs >= thr, stars >= thr, repos >= thr
meets(value, thr) == value >= thr

\* A milestone: its date and its label.  The label f"{thr:,} Contributions",
\* f"{thr} Stars" or f"{thr} Repos" is the pair of the metric's word and the
\* threshold: the formatted numbers differ exactly when the thresholds do.
Milestone(date, metric, thr, value) ==
    [date |-> date, label |-> <<thr, metric>>, value |-> value]

\* the milestones of one metric appended for one snapshot, thresholds
\* ascending (for thr in list(thresholds_left))
Crossed(date, metric, left, value) ==
    LET met == {thr \in left : meets(value, thr)}
    IN  [i \in 1..Cardinality(met) |->
            Milestone(date, metric, SortedSeqOf(met)[i], value)]

\* the value of a year is overwritten by every snapshot that reports it.
update_seen_overwrite(old, val) == val

\* if val > cum_contribs_seen.get(yr, 0): cum_contribs_seen[yr] = val
update_seen(old, val) == IF val > old THEN val ELSE old

RECURSIVE MilestoneScan(_, _)
\* the loop over sorted_history after i snapshots: cum_contribs_seen, the
\* thresholds left, prev_total_contribs and the list milestones
MilestoneScan(sorted_history, i) ==
    IF i = 0
    THEN [ cum_contribs_seen |-> <<>>,
           contrib_thresholds_left |-> CONTRIB_THRESHOLDS,
           star_thresholds_left |-> STAR_THRESHOLDS,
           repo_thresholds_left |-> REPO_THRESHOLDS,
           prev_total_contribs |-> 0,
           milestones |-> <<>> ]
    ELSE LET before == MilestoneScan(sorted_history, i - 1)
             snap == sorted_history[i]
             by_year == snap.contributions_by_year
             seen == before.cum_contribs_seen
             years == DOMAIN seen \cup DOMAIN by_year
             \* for yr, val in by_year.items()
             cum == [ yr \in years |->
                        LET old == IF yr \in DOMAIN seen THEN seen[yr] ELSE 0
                        IN  IF yr \in DOMAIN by_year
                            THEN update_seen(old, by_year[yr]) ELSE old ]
             \* a year never above 0 gets no entry in the dict
             cum_contribs_seen ==
                 [yr \in {y \in years : y \in DOMAIN seen \/ cum[y] > 0} |-> cum[yr]]
             total_contribs == SumSet(DOMAIN cum_contribs_seen, cum_contribs_seen)
             \* if thr >= prev_total_contribs: only then is the milestone appended
             contrib_new ==
                 {thr \in before.contrib_thresholds_left :
                     thr >= before.prev_total_contribs}
             contrib_met ==
                 {thr \in before.contrib_thresholds_left : meets(total_contribs, thr)}
         IN  [ cum_contribs_seen |-> cum_contribs_seen,
               contrib_thresholds_left |-> before.contrib_thresholds_left \ contrib_met,
               star_thresholds_left |->
                   {thr \in before.star_thresholds_left : ~meets(snap.stargazers, thr)},
               repo_thresholds_left |->
                   {thr \in before.repo_thresholds_left : ~meets(snap.repo_count, thr)},
               prev_total_contribs |-> total_contribs,
               milestones |->
                   before.milestones
                   \o Crossed(snap.date, "Contributions", contrib_new, total_contribs)
                   \o Crossed(snap.date, "Stars", before.star_thresholds_left,
                              snap.stargazers)
                   \o Crossed(snap.date, "Repos", before.repo_thresholds_left,
                              snap.repo_count) ]

RECURSIVE KeepFirst(_)
\* the deduplication: the first milestone of each label
KeepFirst(ms) ==
    IF ms = <<>> THEN <<>>
    ELSE LET front == KeepFirst(SubSeq(ms, 1, Len(ms) - 1))
         IN  IF \E j \in 1..Len(front) : front[j].label = Last(ms).label
             THEN front ELSE Append(front, Last(ms))

\* the list milestones that generate_milestones draws
generate_milestones(hist) ==
    KeepFirst(MilestoneScan(SortByDate(hist), Len(hist)).milestones)

\* the timeline with the milestones of the measured snapshots alone, the
\* backfilled ones passed over
draw_milestones_measured_only(hist) ==
    [ kind |-> "timeline",
      dates |-> [i \in 1..Len(hist) |-> hist[i].date],
      entries |-> generate_milestones(
                      SelectSeq(hist, LAMBDA snap : ~snap.synthetic)) ]

\* what generate_milestones writes to milestones.svg: the timeline of the
\* milestones of the history it loaded
draw_milestones(hist) ==
    [ kind |-> "timeline",
      dates |-> [i \in 1..Len(hist) |-> hist[i].date],
      entries |-> generate_milestones(hist) ]

----------------------------------------------------------------------------
\* Stats (src/github_stats.py): the cached attributes of the object `s` that
\* main hands to generate_languages and generate_overview, and get_stats,
\* which fills them.  An attribute that is None is <<>>, a value v is <<v>>.
\* A coroutine gives up control only where it waits for the network, which in
\* get_stats is `await self.queries.query(...)` at the top of each turn of the
\* loop; `await self.languages` inside the loop finds _languages set and
\* returns at once.  What lies between two such waits is one step.

\* Stats.__init__: nothing fetched yet, EXCLUDED_LANGS unset
NewStats(exclude_repos) ==
    [ name |-> <<>>, stargazers |-> <<>>, forks |-> <<>>,
      languages |-> <<>>, repos |-> <<>>, exclude_repos |-> exclude_repos ]

\* The repositories the API knows: stargazers.totalCount, forkCount and the
\* languages edges (name, size) of each node.
RepoNames == {"u/a", "u/b", "o/c"}

RepoNode(name_with_owner) ==
    CASE name_with_owner = "u/a" ->
            [ stargazers |-> 1, forkCount |-> 10,
              languages |-> << <<"Python", 100>>, <<"Shell", 1000>> >> ]
      [] name_with_owner = "u/b" ->
            [ stargazers |-> 2, forkCount |-> 20,
              languages |-> << <<"Python", 200>> >> ]
      [] name_with_owner = "o/c" ->
            [ stargazers |-> 4, forkCount |-> 40,
              languages |-> << <<"Go", 400>> >> ]

\* node.color of a language
LangColor(lang) == IF lang = "Go" THEN "#00ADD8" ELSE "#3572A5"

\* an empty dict
NoLanguages == [l \in {} |-> RInt(0)]

\* get_stats lines 370-373: the accumulators start over
reset_accumulators(st) ==
    [st EXCEPT !.stargazers = <<0>>, !.forks = <<0>>,
               !.languages = <<NoLanguages>>, !.repos = <<{}>>]

\* get_stats lines 407-408 with the repository set alone left out of the test
skip_repo_excluded_only(st, name_with_owner) ==
    name_with_owner \in st.exclude_repos

\* get_stats lines 407-408: a repository already counted, or excluded, is
\* passed over
skip_repo(st, name_with_owner) ==
    \/ name_with_owner \in st.repos[1]
    \/ name_with_owner \in st.exclude_repos

\* get_stats lines 413-426: one languages edge added to the dict; "prop" is
\* not there before the end of get_stats and reads as .get("prop", 0)
add_language(languages, edge) ==
    LET lang == edge[1]
        size == edge[2]
    IN  IF lang \in DOMAIN languages
        THEN [languages EXCEPT ![lang].size = @ + size,
                               ![lang].occurrences = @ + 1]
        ELSE [l \in DOMAIN languages \cup {lang} |->
                IF l = lang
                THEN [ size |-> size, occurrences |-> 1,
                       color |-> LangColor(lang), prop |-> RInt(0) ]
                ELSE languages[l]]

RECURSIVE add_languages(_, _, _)
\* get_stats lines 413-426: the loop over the edges from the k-th on
add_languages(languages, edges, k) ==
    IF k > Len(edges) THEN languages
    ELSE add_languages(add_language(languages, edges[k]), edges, k + 1)

\* get_stats lines 404-426: one repository of the page
add_repo(st, name_with_owner) ==
    IF skip_repo(st, name_with_owner) THEN st
    ELSE LET node == RepoNode(name_with_owner)
         IN  [st EXCEPT
                !.repos = <<@[1] \cup {name_with_owner}>>,
                !.stargazers = <<@[1] + node.stargazers>>,
                !.forks = <<@[1] + node.forkCount>>,
                !.languages = <<add_languages(@[1], node.languages, 1)>>]

RECURSIVE add_repos(_, _, _)
\* get_stats lines 404-426: the loop over `repos` from the k-th on
add_repos(st, repos, k) ==
    IF k > Len(repos) THEN st
    ELSE add_repos(add_repo(st, repos[k]), repos, k + 1)

\* get_stats lines 384-426: what is done with one answer of the API
process_page(st, page) ==
    add_repos([st EXCEPT !.name = <<"User">>], page, 1)

\* get_stats lines 440-442: the share of every language
set_props(st) ==
    LET languages == st.languages[1]
        langs_total == SumSet(DOMAIN languages,
                              [l \in DOMAIN languages |-> languages[l].size])
    IN  [st EXCEPT !.languages =
            <<[l \in DOMAIN languages |->
                [languages[l] EXCEPT
                    !.prop = RMul(RInt(100),
                                  RDiv(RInt(languages[l].size),
                                       RInt(langs_total)))]]>>]

\* main lines 1510-1513: the two coroutines asyncio.gather runs on `s`
TaskNames == {"generate_languages", "generate_overview"}

\* what a task has read from `s` so far
NoRead ==
    [ name |-> <<>>, stargazers |-> <<>>, forks |-> <<>>,
      languages |-> <<>>, repos |-> <<>> ]

\* a coroutine not yet started: cursor is the page get_stats asks for next,
\* called whether the task has called get_stats
NewTask == [ pc |-> "start", cursor |-> 1, called |-> FALSE, read |-> NoRead ]

\* The history engine is modelled without the Stats object (what
\* build_snapshot returns is drawn from the inputs there); these three
\* variables then stay as they are here.
StatsNotFollowed ==
    /\ stats = NewStats({})
    /\ tasks = [t \in TaskNames |-> NewTask]
    /\ result_pages = <<>>

\* the attribute a task asks for first: generate_languages line 217,
\* generate_overview line 192
first_attribute(t, st) ==
    IF t = "generate_languages" THEN st.languages ELSE st.name

\* What a task reads before it waits again or ends.  generate_languages
\* lines 216-241 sort and format the languages and write languages.svg;
\* generate_overview lines 192-195 read name, stargazers and forks (both
\* set by now, so neither accessor calls get_stats) and then wait for
\* total_contributions.
first_reads(t, st) ==
    IF t = "generate_languages"
    THEN [ pc |-> "done", read |-> [NoRead EXCEPT !.languages = st.languages] ]
    ELSE [ pc |-> "contributions",
           read |-> [NoRead EXCEPT !.name = st.name,
                                   !.stargazers = st.stargazers,
                                   !.forks = st.forks] ]

----------------------------------------------------------------------------
\* Queries.query_rest (src/github_stats.py lines 69-147): one call, followed
\* from one turn of its loop to the next.

max_retries == 10

\* HTTP status codes an answer can carry
Statuses == {200, 202, 204, 403, 404, 500}

\* What one request can come to: it raises (a connection error, or
\* r_async.json() failing, which lands in the same except clause), or it
\* answers with a status and a body that decodes to None or to a value.
RequestOutcomes ==
    [ raises : BOOLEAN, status : Statuses, json_is_none : BOOLEAN ]

\* The call before its first request: attempts is the number of turns of the
\* loop taken so far, sleeps the arguments of asyncio.sleep in order, last
\* the transport and status of the latest answer (<<>> if the request
\* raised), only_202 whether every turn so far ended on a 202 answer and
\* result the returned value (<<>> while the call runs).
NewRequest ==
    [ pc |-> "loop", attempts |-> 0, sleeps |-> <<>>, last |-> <<>>,
      only_202 |-> TRUE, result |-> <<>> ]

\* no call of query_rest is followed
NoRequest == [NewRequest EXCEPT !.pc = "idle"]

\* one turn of `for attempt in range(max_retries)`, lines 94-145, and line
\* 147 if the loop ends with it
query_rest_attempt(r, primary, fallback) ==
    LET attempt == r.attempts
        seen(transport, status) ==
            [r EXCEPT !.attempts = attempt + 1,
                      !.last = <<[transport |-> transport, status |-> status]>>,
                      !.only_202 = @ /\ status = 202]
        unseen == [r EXCEPT !.attempts = attempt + 1, !.last = <<>>,
                            !.only_202 = FALSE]
        returns(after, value) ==
            [after EXCEPT !.pc = "returned", !.result = <<value>>]
        \* the loop goes on, or is over and line 147 returns
        next_turn(after) ==
            IF attempt + 1 < max_retries THEN after
            ELSE returns(after, "dict()")
        \* lines 102-111 and 130-136
        on_202(after) ==
            IF attempt < max_retries - 1
            THEN [after EXCEPT !.sleeps = Append(@, 5 * (2 ^ attempt))]
            ELSE returns(after, "dict()")
    IN  IF ~primary.raises
        THEN LET after == seen("aiohttp", primary.status)
             IN  CASE primary.status = 202 -> on_202(after)
                   [] primary.status = 204 -> returns(after, "dict()")
                   [] primary.status = 403 -> returns(after, "dict()")
                   [] primary.status \notin {200, 202, 204, 403} ->
                        returns(after, "dict()")
                   [] OTHER ->
                        IF ~primary.json_is_none
                        THEN returns(after, "json")
                        ELSE next_turn(after)
        ELSE IF fallback.raises
             THEN next_turn(unseen)
             ELSE LET after == seen("requests", fallback.status)
                  IN  CASE fallback.status = 202 -> on_202(after)
                        [] fallback.status = 403 -> returns(after, "dict()")
                        [] fallback.status = 200 -> returns(after, "json")
                        [] OTHER -> next_turn(after)

----------------------------------------------------------------------------
\* The runs of main().

Init ==
    /\ file = AbsentFile
    /\ clock = 20240110
    /\ run_no = 0
    /\ pc = "idle"
    /\ history = <<>>
    /\ existing_dates = {}
    /\ current_snapshot = <<>>
    /\ previous_snapshot = <<>>
    /\ is_valid = FALSE
    /\ reason = ""
    /\ backfilled = FALSE
    /\ warned = FALSE
    /\ last_snapshot = <<>>
    /\ saved = FALSE
    /\ history_svg = NotWritten
    /\ milestones_svg = NotWritten
    /\ achievements_svg = NotWritten
    /\ top_langs = {}
    /\ forecast = <<>>
    /\ StatsNotFollowed
    /\ rest = NoRequest

Finished == pc \in {"idle", "done", "crashed"}

\* main calling generate_milestones ahead of generate_history.
main_first_milestones == "milestones"

\* main, line 1514: after the language and overview cards, generate_history
\* is awaited before anything that reads the history file; its first step
\* after load_history is build_snapshot
main_first == "build"

\* main() up to generate_history line 257: a new process, load_history().
StartRun ==
    /\ Finished
    /\ run_no < MaxRuns
    /\ run_no' = run_no + 1
    /\ LET out == load_history(file)
       IN  /\ pc' = IF out.raised THEN "crashed" ELSE main_first
           /\ history' = out.result
           /\ existing_dates' = DatesOf(out.result)
           /\ warned' = out.warned
    /\ last_snapshot' = current_snapshot
    /\ current_snapshot' = <<>>
    /\ previous_snapshot' = <<>>
    /\ is_valid' = FALSE
    /\ reason' = ""
    /\ backfilled' = FALSE
    /\ saved' = FALSE
    /\ history_svg' = NotWritten
    /\ milestones_svg' = NotWritten
    /\ achievements_svg' = NotWritten
    /\ top_langs' = {}
    /\ forecast' = <<>>
    /\ UNCHANGED <<stats_vars, rest>>
    /\ UNCHANGED <<file, clock>>

\* generate_history line 258: current_snapshot = await s.build_snapshot().
\* The date is utcnow(), which does not go back; the weeks the API reports
\* started on or before it.
BuildSnapshot ==
    /\ pc = "build"
    /\ \E today \in Days, weekly \in Weeklies, api \in ApiProfiles :
          /\ today >= clock
          /\ \A w \in DOMAIN weekly : w <= today
          /\ clock' = today
          /\ current_snapshot' = <<build_snapshot(today, weekly, api)>>
    /\ pc' = "backfill"
    /\ UNCHANGED <<stats_vars, rest>>
    /\ UNCHANGED <<file, run_no, history, existing_dates, previous_snapshot,
                   is_valid, reason, backfilled, warned, last_snapshot,
                   saved, history_svg, milestones_svg, achievements_svg,
                   top_langs, forecast>>

\* generate_history lines 260-265
Backfill ==
    /\ pc = "backfill"
    /\ IF first_run(history)
       THEN /\ history' = history \o
                    backfill_from_api_data(current_snapshot[1], existing_dates)
            /\ existing_dates' = DatesOf(history')
            /\ backfilled' = TRUE
       ELSE UNCHANGED <<history, existing_dates, backfilled>>
    /\ pc' = "validate"
    /\ UNCHANGED <<stats_vars, rest>>
    /\ UNCHANGED <<file, clock, run_no, current_snapshot, previous_snapshot,
                   is_valid, reason, warned, last_snapshot, saved,
                   history_svg, milestones_svg, achievements_svg,
                   top_langs, forecast>>

\* generate_history lines 267-289
ValidateUpsert ==
    /\ pc = "validate"
    /\ LET current == current_snapshot[1]
           previous == find_previous(history, current.date)
           verdict == validate_snapshot(current, previous)
       IN  /\ previous_snapshot' = previous
           /\ is_valid' = verdict.ok
           /\ reason' = verdict.reason
           /\ history' = upsert(history, current, verdict.ok)
           /\ pc' = after_validation(verdict.ok)
    /\ UNCHANGED <<stats_vars, rest>>
    /\ UNCHANGED <<file, clock, run_no, existing_dates, current_snapshot,
                   backfilled, warned, last_snapshot, saved,
                   history_svg, milestones_svg, achievements_svg,
                   top_langs, forecast>>

\* generate_history lines 291-293: history.sort(...); save_history(history)
SortSave ==
    /\ pc = "save"
    /\ history' = SortByDate(history)
    /\ file' = JsonDump(history')
    /\ saved' = TRUE
    /\ pc' = "chart"
    /\ UNCHANGED <<stats_vars, rest>>
    /\ UNCHANGED <<clock, run_no, existing_dates, current_snapshot,
                   previous_snapshot, is_valid, reason, backfilled, warned,
                   last_snapshot, history_svg, milestones_svg,
                   achievements_svg,
                   top_langs, forecast>>

\* the chart series after the forecast: the source builds `dates` and the
\* other series as new lists and appends the forecast to them, with `history`
\* aliased to the series so that the forecast lands in it.
after_project_aliased(hist, fc) ==
    hist \o [k \in 1..2 |-> [Last(hist) EXCEPT !.date = fc.dates[k]]]

\* what the list `history` holds after the forecast was appended to the chart
\* series: dates = [snap.get("date", "") for snap in history] and the other
\* series are new lists, the appends do not reach history
after_project(hist, fc) == hist

\* generate_history lines 295-308: fewer than 2 data points, the placeholder
Placeholder ==
    /\ pc = "chart"
    /\ Len(history) < 2
    /\ history_svg' = render_history(history, forecast)
    /\ pc' = "milestones"
    /\ UNCHANGED <<stats_vars, rest>>
    /\ UNCHANGED <<file, clock, run_no, history, existing_dates,
                   current_snapshot, previous_snapshot, is_valid, reason,
                   backfilled, warned, last_snapshot, saved, milestones_svg,
                   achievements_svg, top_langs, forecast>>

\* generate_history lines 310-509: the tracked languages, the time series and
\* their forecast
Project ==
    /\ pc = "chart"
    /\ Len(history) >= 2
    /\ \E top \in select_langs(history) :
          LET fc == project(history, top)
          IN  /\ top_langs' = top
              /\ forecast' = <<fc>>
              /\ history' = after_project(history, fc)
    /\ pc' = "render"
    /\ UNCHANGED <<stats_vars, rest>>
    /\ UNCHANGED <<file, clock, run_no, existing_dates, current_snapshot,
                   previous_snapshot, is_valid, reason, backfilled, warned,
                   last_snapshot, saved, history_svg, milestones_svg,
                   achievements_svg>>

\* generate_history lines 511-end: history.svg from the series
RenderHistory ==
    /\ pc = "render"
    /\ history_svg' = render_history(history, forecast)
    /\ pc' = "milestones"
    /\ UNCHANGED <<stats_vars, rest>>
    /\ UNCHANGED <<file, clock, run_no, history, existing_dates,
                   current_snapshot, previous_snapshot, is_valid, reason,
                   backfilled, warned, last_snapshot, saved, milestones_svg,
                   achievements_svg, top_langs, forecast>>

\* main line 1515: generate_milestones() reads the stored history
GenerateMilestones ==
    /\ pc = "milestones"
    /\ LET out == load_history(file)
       IN  IF out.raised
           THEN pc' = "crashed" /\ UNCHANGED milestones_svg
           ELSE /\ pc' = "achievements"
                /\ milestones_svg' = draw_milestones(out.result)
    /\ UNCHANGED <<stats_vars, rest>>
    /\ UNCHANGED <<file, clock, run_no, history, existing_dates,
                   current_snapshot, previous_snapshot, is_valid, reason,
                   backfilled, warned, last_snapshot, saved, history_svg,
                   achievements_svg,
                   top_langs, forecast>>

\* main line 1516: generate_achievements() reads the stored history
GenerateAchievements ==
    /\ pc = "achievements"
    /\ LET out == load_history(file)
       IN  IF out.raised
           THEN pc' = "crashed" /\ UNCHANGED achievements_svg
           ELSE /\ pc' = "done"
                /\ achievements_svg' =
                      [ kind |-> "badges",
                        dates |-> [i \in 1..Len(out.result) |-> out.result[i].date] ]
    /\ UNCHANGED <<stats_vars, rest>>
    /\ UNCHANGED <<file, clock, run_no, history, existing_dates,
                   current_snapshot, previous_snapshot, is_valid, reason,
                   backfilled, warned, last_snapshot, saved, history_svg,
                   milestones_svg,
                   top_langs, forecast>>

Next ==
    \/ StartRun
    \/ BuildSnapshot
    \/ Backfill
    \/ ValidateUpsert
    \/ SortSave
    \/ Placeholder
    \/ Project
    \/ RenderHistory
    \/ GenerateMilestones
    \/ GenerateAchievements

Spec == Init /\ [][Next]_vars

----------------------------------------------------------------------------
\* The history file damaged between two runs (a bad merge, a truncated write,
\* a hand edit): the case load_history's except clause is there for.

Tamper ==
    /\ Finished
    /\ \E k \in MalformedKinds : file' = MalformedFile(k)
    /\ file' # file
    /\ UNCHANGED <<stats_vars, rest>>
    /\ UNCHANGED <<clock, run_no, pc, history, existing_dates,
                   current_snapshot, previous_snapshot, is_valid, reason,
                   backfilled, warned, last_snapshot, saved, history_svg,
                   milestones_svg, achievements_svg,
                   top_langs, forecast>>

NextIO == Next \/ Tamper

SpecIO == Init /\ [][NextIO]_vars

----------------------------------------------------------------------------
\* validate_snapshot on its own: one call on a pair of snapshots drawn from a
\* grid of line counts around both thresholds.

LineGrid == {0, 9, 10, 89999, 90000, 95000, 100000, 449999, 450000, 500000,
             549999, 550000, 600000}

GridSnapshot(today, adds, dels) ==
    build_snapshot(today,
                   IF adds = 0 /\ dels = 0 THEN WkNone
                   ELSE (20240101 :> <<adds, dels>>),
                   CHOOSE api \in ApiProfiles : TRUE)

InitValidate ==
    /\ file = AbsentFile
    /\ clock = 20240128
    /\ run_no = 0
    /\ pc = "call"
    /\ history = <<>>
    /\ existing_dates = {}
    /\ current_snapshot \in
          {<<GridSnapshot(20240128, a, d)>> : a \in LineGrid, d \in {0, 1}}
    /\ previous_snapshot \in
          {<<>>} \cup
          {<<GridSnapshot(20240110, a, d)>> : a \in LineGrid, d \in {0, 1}}
    /\ is_valid = FALSE
    /\ reason = ""
    /\ backfilled = FALSE
    /\ warned = FALSE
    /\ last_snapshot = <<>>
    /\ saved = FALSE
    /\ history_svg = NotWritten
    /\ milestones_svg = NotWritten
    /\ achievements_svg = NotWritten
    /\ top_langs = {}
    /\ forecast = <<>>
    /\ StatsNotFollowed
    /\ rest = NoRequest

\* is_valid, reason = validate_snapshot(current_snapshot, previous_snapshot)
ApplyValidate ==
    /\ pc = "call"
    /\ LET verdict == validate_snapshot(current_snapshot[1], previous_snapshot)
       IN  /\ is_valid' = verdict.ok
           /\ reason' = verdict.reason
    /\ pc' = "returned"
    /\ UNCHANGED <<stats_vars, rest>>
    /\ UNCHANGED <<file, clock, run_no, history, existing_dates,
                   current_snapshot, previous_snapshot, backfilled, warned,
                   last_snapshot, saved, history_svg, milestones_svg,
                   achievements_svg,
                   top_langs, forecast>>

NextValidate == ApplyValidate

SpecValidate == InitValidate /\ [][NextValidate]_vars

----------------------------------------------------------------------------
\* backfill_from_api_data on its own: one call, with an empty set of existing
\* dates, on a snapshot whose weekly statistics are drawn from four weeks in
\* three calendar months.

BackfillWeeks == {20231204, 20231225, 20240101, 20240205}

\* (additions, deletions) of one week; _fetch_contributor_stats leaves out the
\* weeks in which both are 0
BackfillChanges == {<<0, 5>>, <<3, 0>>, <<10, 2>>}

BackfillWeeklies ==
    UNION {[S -> BackfillChanges] : S \in SUBSET BackfillWeeks}

InitBackfill ==
    /\ file = AbsentFile
    /\ clock = 20240210
    /\ run_no = 0
    /\ pc = "call_backfill"
    /\ history = <<>>
    /\ existing_dates = {}
    /\ \E weekly \in BackfillWeeklies, api \in ApiProfiles, repos \in {0, 1, 7} :
          current_snapshot =
              <<build_snapshot(20240210, weekly, [api EXCEPT !.repo_count = repos])>>
    /\ previous_snapshot = <<>>
    /\ is_valid = FALSE
    /\ reason = ""
    /\ backfilled = FALSE
    /\ warned = FALSE
    /\ last_snapshot = <<>>
    /\ saved = FALSE
    /\ history_svg = NotWritten
    /\ milestones_svg = NotWritten
    /\ achievements_svg = NotWritten
    /\ top_langs = {}
    /\ forecast = <<>>
    /\ StatsNotFollowed
    /\ rest = NoRequest

\* synthetic = backfill_from_api_data(current_snapshot, existing_dates)
ApplyBackfill ==
    /\ pc = "call_backfill"
    /\ history' = backfill_from_api_data(current_snapshot[1], existing_dates)
    /\ backfilled' = TRUE
    /\ pc' = "backfill_returned"
    /\ UNCHANGED <<stats_vars, rest>>
    /\ UNCHANGED <<file, clock, run_no, existing_dates, current_snapshot,
                   previous_snapshot, is_valid, reason, warned, last_snapshot,
                   saved, history_svg, milestones_svg, achievements_svg,
                   top_langs, forecast>>

NextBackfill == ApplyBackfill

SpecBackfill == InitBackfill /\ [][NextBackfill]_vars

----------------------------------------------------------------------------
\* The forecast on its own: one pass of generate_history lines 310-509 over a
\* stored history of 2 to MaxPoints snapshots.

MaxPoints == 4

\* (lines added, lines deleted, stargazers) of a snapshot
ForecastCounts == {<<1000, 200, 5>>, <<1500, 250, 0>>}

\* the languages of a snapshot: none (a response without language data), or
\* three languages of which one keeps its share while the other two swap
ForecastLangs ==
    { <<>>,
      [ Python |-> [size |-> 500, prop |-> 50, color |-> "#3572A5"],
        Shell  |-> [size |-> 400, prop |-> 40, color |-> "#89e051"],
        HTML   |-> [size |-> 100, prop |-> 10, color |-> "#e34c26"] ],
      [ Python |-> [size |-> 500, prop |-> 50, color |-> "#3572A5"],
        Shell  |-> [size |-> 100, prop |-> 10, color |-> "#89e051"],
        HTML   |-> [size |-> 400, prop |-> 40, color |-> "#e34c26"] ] }

\* the number of days between two consecutive snapshots: daily runs, monthly
\* runs, and for a history of two snapshots also 55 days and four years
ForecastGaps(n) == IF n = 2 THEN {1, 31, 55, 1461} ELSE {1, 31}

\* a snapshot as build_snapshot stores it
ForecastSnapshot(date, counts, langs) ==
    [ build_snapshot(date, (date :> <<counts[1], counts[2]>>),
                     CHOOSE api \in ApiProfiles : TRUE)
      EXCEPT !.stargazers = counts[3], !.languages = langs ]

InitForecast ==
    /\ file = AbsentFile
    /\ clock = 20240101
    /\ run_no = 0
    /\ pc = "call_project"
    /\ \E n \in 2..MaxPoints :
         \E gap \in ForecastGaps(n),
            c \in [1..n -> ForecastCounts], l \in [1..n -> ForecastLangs] :
              history = [i \in 1..n |->
                  ForecastSnapshot(DatePlus(20240101, (i - 1) * gap), c[i], l[i])]
    /\ existing_dates = {}
    /\ current_snapshot = <<>>
    /\ previous_snapshot = <<>>
    /\ is_valid = FALSE
    /\ reason = ""
    /\ backfilled = FALSE
    /\ warned = FALSE
    /\ last_snapshot = <<>>
    /\ saved = TRUE
    /\ history_svg = NotWritten
    /\ milestones_svg = NotWritten
    /\ achievements_svg = NotWritten
    /\ top_langs = {}
    /\ forecast = <<>>
    /\ StatsNotFollowed
    /\ rest = NoRequest

\* generate_history lines 310-509 on the history
ApplyProject ==
    /\ pc = "call_project"
    /\ \E top \in select_langs(history) :
          /\ top_langs' = top
          /\ forecast' = <<project(history, top)>>
    /\ pc' = "projected"
    /\ UNCHANGED <<stats_vars, rest>>
    /\ UNCHANGED <<file, clock, run_no, history, existing_dates,
                   current_snapshot, previous_snapshot, is_valid, reason,
                   backfilled, warned, last_snapshot, saved, history_svg,
                   milestones_svg, achievements_svg>>

NextForecast == ApplyProject

SpecForecast == InitForecast /\ [][NextForecast]_vars

----------------------------------------------------------------------------
\* The language selection on its own: generate_history lines 310-344 over a
\* stored history of 2 to MaxLangSnapshots snapshots of a user with nine
\* languages.

MaxLangSnapshots == 2

LangOrder ==
    <<"Python", "Shell", "HTML", "CSS", "JavaScript", "C", "Go", "Rust", "TeX">>

\* The languages of one snapshot.  The sizes are 100, 200, ... in the order
\* of LangOrder turned by r places, so that each snapshot has its own ranking;
\* with few, only the first three languages are there.  prop is the share in
\* whole percent; the selection does not read it.
LangSizes(r, few) ==
    LET n == Len(LangOrder)
        present == IF few THEN 1..3 ELSE 1..n
        size == [i \in 1..n |-> 100 * (((i - 1 + r) % n) + 1)]
        total == SumSet(present, size)
    IN  [ name \in {LangOrder[i] : i \in present} |->
            LET i == CHOOSE j \in present : LangOrder[j] = name
            IN  [ size |-> size[i],
                  prop |-> (100 * size[i]) \div total,
                  color |-> "#cccccc" ] ]

InitLang ==
    /\ file = AbsentFile
    /\ clock = 20240101
    /\ run_no = 0
    /\ pc = "call_select"
    /\ \E n \in 2..MaxLangSnapshots :
         \E r \in [1..n -> 0..(Len(LangOrder) - 1)], few \in [1..n -> BOOLEAN] :
            history = [i \in 1..n |->
                ForecastSnapshot(DatePlus(20240101, i - 1), <<1000, 200, 5>>,
                                 LangSizes(r[i], few[i]))]
    /\ existing_dates = {}
    /\ current_snapshot = <<>>
    /\ previous_snapshot = <<>>
    /\ is_valid = FALSE
    /\ reason = ""
    /\ backfilled = FALSE
    /\ warned = FALSE
    /\ last_snapshot = <<>>
    /\ saved = TRUE
    /\ history_svg = NotWritten
    /\ milestones_svg = NotWritten
    /\ achievements_svg = NotWritten
    /\ top_langs = {}
    /\ forecast = <<>>
    /\ StatsNotFollowed
    /\ rest = NoRequest

\* generate_history lines 310-344 on the history
ApplySelect ==
    /\ pc = "call_select"
    /\ top_langs' \in select_langs(history)
    /\ pc' = "selected"
    /\ UNCHANGED <<stats_vars, rest>>
    /\ UNCHANGED <<file, clock, run_no, history, existing_dates,
                   current_snapshot, previous_snapshot, is_valid, reason,
                   backfilled, warned, last_snapshot, saved, history_svg,
                   milestones_svg, achievements_svg, forecast>>

NextLang == ApplySelect

SpecLang == InitLang /\ [][NextLang]_vars

----------------------------------------------------------------------------
\* generate_milestones on its own: one call on a stored history of 1 to
\* MaxMilestoneSnapshots daily snapshots.

MaxMilestoneSnapshots == 3

\* (stargazers, repo_count) of a snapshot: below, at and between thresholds
MilestoneCounts == {<<0, 4>>, <<5, 5>>, <<4, 7>>}

\* contributions_by_year of a snapshot; a response may lack a year or report
\* less for it than an earlier one
MilestoneYears ==
    { (2023 :> 60),
      (2024 :> 60),
      (2023 :> 60) @@ (2024 :> 40),
      (2023 :> 120) @@ (2024 :> 30) }

MilestoneSnapshot(date, counts, by_year) ==
    build_snapshot(date, WkNone,
                   [ (CHOOSE api \in ApiProfiles : TRUE)
                     EXCEPT !.stargazers = counts[1],
                            !.repo_count = counts[2],
                            !.contributions_by_year = by_year ])

InitMilestones ==
    /\ \E n \in 1..MaxMilestoneSnapshots :
         \E c \in [1..n -> MilestoneCounts], y \in [1..n -> MilestoneYears] :
            history = [i \in 1..n |->
                MilestoneSnapshot(DatePlus(20240101, i - 1), c[i], y[i])]
    /\ file = JsonDump(history)
    /\ clock = 20240101
    /\ run_no = 0
    /\ pc = "call_milestones"
    /\ existing_dates = {}
    /\ current_snapshot = <<>>
    /\ previous_snapshot = <<>>
    /\ is_valid = FALSE
    /\ reason = ""
    /\ backfilled = FALSE
    /\ warned = FALSE
    /\ last_snapshot = <<>>
    /\ saved = TRUE
    /\ history_svg = NotWritten
    /\ milestones_svg = NotWritten
    /\ achievements_svg = NotWritten
    /\ top_langs = {}
    /\ forecast = <<>>
    /\ StatsNotFollowed
    /\ rest = NoRequest

\* generate_milestones()
ApplyMilestones ==
    /\ pc = "call_milestones"
    /\ milestones_svg' = draw_milestones(load_history(file).result)
    /\ pc' = "milestones_done"
    /\ UNCHANGED <<stats_vars, rest>>
    /\ UNCHANGED <<file, clock, run_no, history, existing_dates,
                   current_snapshot, previous_snapshot, is_valid, reason,
                   backfilled, warned, last_snapshot, saved, history_svg,
                   achievements_svg, top_langs, forecast>>

NextMilestones == ApplyMilestones

SpecMilestones == InitMilestones /\ [][NextMilestones]_vars

----------------------------------------------------------------------------
\* Runs of main() on days before the 28th of the month of the first run:
\* the backfilled snapshot of that month is dated after every run.

MidMonthDays == {20240110, 20240115, 20240120}

\* generate_history line 258 on one of these days
BuildSnapshotMidMonth ==
    /\ pc = "build"
    /\ \E today \in MidMonthDays, weekly \in Weeklies, api \in ApiProfiles :
          /\ today >= clock
          /\ \A w \in DOMAIN weekly : w <= today
          /\ clock' = today
          /\ current_snapshot' = <<build_snapshot(today, weekly, api)>>
    /\ pc' = "backfill"
    /\ UNCHANGED <<stats_vars, rest>>
    /\ UNCHANGED <<file, run_no, history, existing_dates, previous_snapshot,
                   is_valid, reason, backfilled, warned, last_snapshot,
                   saved, history_svg, milestones_svg, achievements_svg,
                   top_langs, forecast>>

NextMidMonth ==
    \/ StartRun
    \/ BuildSnapshotMidMonth
    \/ Backfill
    \/ ValidateUpsert
    \/ SortSave
    \/ Placeholder
    \/ Project
    \/ RenderHistory
    \/ GenerateMilestones
    \/ GenerateAchievements

SpecMidMonth == Init /\ [][NextMidMonth]_vars

----------------------------------------------------------------------------
\* asyncio.gather(generate_languages(s), generate_overview(s)) on its own.

MaxPages == 2

\* the `repos` list of one answer: up to two nodes, repeats allowed (a
\* repository can be both owned and contributed to, or be listed again on a
\* later page)
Pages ==
    {<<>>} \cup {<<r>> : r \in RepoNames}
           \cup {<<r, q>> : r \in RepoNames, q \in RepoNames}

InitStats ==
    /\ file = AbsentFile
    /\ clock = 20240101
    /\ run_no = 0
    /\ pc = "gather"
    /\ history = <<>>
    /\ existing_dates = {}
    /\ current_snapshot = <<>>
    /\ previous_snapshot = <<>>
    /\ is_valid = FALSE
    /\ reason = ""
    /\ backfilled = FALSE
    /\ warned = FALSE
    /\ last_snapshot = <<>>
    /\ saved = FALSE
    /\ history_svg = NotWritten
    /\ milestones_svg = NotWritten
    /\ achievements_svg = NotWritten
    /\ top_langs = {}
    /\ forecast = <<>>
    /\ \E exclude_repos \in {{}, {"u/b"}} : stats = NewStats(exclude_repos)
    /\ tasks = [t \in TaskNames |-> NewTask]
    /\ \E n \in 1..MaxPages : result_pages \in [1..n -> Pages]
    /\ rest = NoRequest

\* A coroutine runs from its start to its first wait.  The event loop starts
\* the coroutines in the order gather was given them, so generate_overview
\* starts once generate_languages waits.  The accessor (lines 523-555)
\* returns the attribute if it is set and calls get_stats otherwise, which
\* resets the accumulators and waits for the first page.
StartTask(t) ==
    /\ tasks[t].pc = "start"
    /\ t = "generate_overview" => tasks["generate_languages"].pc # "start"
    /\ IF first_attribute(t, stats) # <<>>
       THEN /\ tasks' = [tasks EXCEPT ![t].pc = first_reads(t, stats).pc,
                                      ![t].read = first_reads(t, stats).read]
            /\ UNCHANGED stats
       ELSE /\ stats' = reset_accumulators(stats)
            /\ tasks' = [tasks EXCEPT ![t].pc = "query", ![t].called = TRUE]
    /\ UNCHANGED <<result_pages, rest, history_vars>>

\* get_stats lines 379-442 from the arrival of one answer to the next wait:
\* the page is processed; with hasNextPage the next page is asked for,
\* without it the shares are set, get_stats returns and the task reads on.
QueryReturns(t) ==
    /\ tasks[t].pc = "query"
    /\ LET st == process_page(stats, result_pages[tasks[t].cursor])
       IN  IF tasks[t].cursor < Len(result_pages)
           THEN /\ stats' = st
                /\ tasks' = [tasks EXCEPT ![t].cursor = @ + 1]
           ELSE /\ stats' = set_props(st)
                /\ tasks' = [tasks EXCEPT
                                ![t].pc = first_reads(t, set_props(st)).pc,
                                ![t].read = first_reads(t, set_props(st)).read]
    /\ UNCHANGED <<result_pages, rest, history_vars>>

\* generate_overview lines 195-199: the other attributes have arrived and
\* the repository set is read
OverviewReadsRepos ==
    /\ tasks["generate_overview"].pc = "contributions"
    /\ tasks' = [tasks EXCEPT !["generate_overview"].pc = "done",
                              !["generate_overview"].read.repos = stats.repos]
    /\ UNCHANGED <<stats, result_pages, rest, history_vars>>

NextStats ==
    \/ \E t \in TaskNames : StartTask(t)
    \/ \E t \in TaskNames : QueryReturns(t)
    \/ OverviewReadsRepos

SpecStats == InitStats /\ [][NextStats]_vars

----------------------------------------------------------------------------
\* One call of Queries.query_rest on its own.

InitRest ==
    /\ file = AbsentFile
    /\ clock = 20240101
    /\ run_no = 0
    /\ pc = "gather"
    /\ history = <<>>
    /\ existing_dates = {}
    /\ current_snapshot = <<>>
    /\ previous_snapshot = <<>>
    /\ is_valid = FALSE
    /\ reason = ""
    /\ backfilled = FALSE
    /\ warned = FALSE
    /\ last_snapshot = <<>>
    /\ saved = FALSE
    /\ history_svg = NotWritten
    /\ milestones_svg = NotWritten
    /\ achievements_svg = NotWritten
    /\ top_langs = {}
    /\ forecast = <<>>
    /\ StatsNotFollowed
    /\ rest = NewRequest

\* one turn of the loop of query_rest
Attempt ==
    /\ rest.pc = "loop"
    /\ \E primary \in RequestOutcomes, fallback \in RequestOutcomes :
          rest' = query_rest_attempt(rest, primary, fallback)
    /\ UNCHANGED <<history_vars, stats_vars>>

NextRest == Attempt

SpecRest == InitRest /\ [][NextRest]_vars

----------------------------------------------------------------------------
\* The runs of main() for an account that may be new: its weekly statistics
\* can lie in the month of the first run alone.

WkThisMonth == (20240101 :> <<20000, 5000>>)

\* generate_history line 258 for such an account
BuildSnapshotNewAccount ==
    /\ pc = "build"
    /\ \E today \in Days, weekly \in Weeklies \cup {WkThisMonth},
          api \in ApiProfiles :
          /\ today >= clock
          /\ \A w \in DOMAIN weekly : w <= today
          /\ clock' = today
          /\ current_snapshot' = <<build_snapshot(today, weekly, api)>>
    /\ pc' = "backfill"
    /\ UNCHANGED <<stats_vars, rest>>
    /\ UNCHANGED <<file, run_no, history, existing_dates, previous_snapshot,
                   is_valid, reason, backfilled, warned, last_snapshot,
                   saved, history_svg, milestones_svg, achievements_svg,
                   top_langs, forecast>>

NextNewAccount ==
    \/ StartRun
    \/ BuildSnapshotNewAccount
    \/ Backfill
    \/ ValidateUpsert
    \/ SortSave
    \/ Placeholder
    \/ Project
    \/ RenderHistory
    \/ GenerateMilestones
    \/ GenerateAchievements

SpecNewAccount == Init /\ [][NextNewAccount]_vars

----------------------------------------------------------------------------
\* Properties.

\* the run has passed the validate-and-upsert step
Validated ==
    pc \in {"save", "chart", "render", "milestones", "achievements", "done"}

Rejected == Validated /\ ~is_valid

Candidate == current_snapshot[1]

\* the drop rule of the specification, on two line totals
SuspiciousDrop(curr, prev) ==
    /\ curr < prev
    /\ \/ prev - curr > 50000
       \/ prev > 0 /\ 10 * (prev - curr) > prev

StrictlyAscending(s) == \A i \in 1..(Len(s) - 1) : s[i].date < s[i + 1].date

RealOf(f) == {x \in Range(f.items) : ~x.synthetic}

SyntheticOf(f) == {x \in Range(f.items) : x.synthetic}

\* C1: a candidate whose line total is below the previous snapshot's by more
\* than 50000, or by more than 10% of it, is rejected; and when a run that
\* rejected its candidate is over, the history file holds the previous
\* snapshot and does not hold the candidate.
C1_RejectsSuspiciousDrop ==
    /\ ( Validated /\ previous_snapshot # <<>>
         /\ SuspiciousDrop(LinesTotal(Candidate), LinesTotal(previous_snapshot[1])) )
       => ~is_valid
    /\ ( pc = "done" /\ ~is_valid )
       => /\ previous_snapshot # <<>>
          /\ previous_snapshot[1] \in Range(file.items)
          /\ Candidate \notin Range(file.items)

\* previous total 100000, candidate total 40000, rejected, run over
C1_Witness ==
    /\ pc = "done"
    /\ ~is_valid
    /\ previous_snapshot # <<>>
    /\ LinesTotal(previous_snapshot[1]) = 100000
    /\ LinesTotal(Candidate) = 40000

\* C2: the save of a run that rejected its candidate writes exactly the
\* history that load_history returned at the start of the run.
C2_RejectedLeavesHistory ==
    [][ (pc = "save" /\ ~is_valid)
        => /\ file'.kind = "list"
           /\ file'.items = load_history(file).result
           /\ file'.items = file.items ]_vars

\* a rejected run has saved, and the file holds a snapshot of the candidate's day
C2_Witness ==
    /\ pc = "chart"
    /\ ~is_valid
    /\ \E x \in Range(file.items) : x.date = Candidate.date

\* C3: the history file, once written, is strictly ascending by date (sorted,
\* no date twice), and load_history on it returns that list.
C3_SortedUnique ==
    file.kind = "list"
    => /\ StrictlyAscending(file.items)
       /\ ~load_history(file).raised
       /\ load_history(file).result = file.items

\* a save that had to reorder: the candidate was appended after a backfilled
\* snapshot with a later date
C3_Witness ==
    /\ pc = "chart"
    /\ backfilled
    /\ is_valid
    /\ Len(file.items) >= 3
    /\ Last(file.items).date > Candidate.date

\* C4: no step removes a date from the history file, and the real snapshots a
\* step adds to it are at most one, the candidate dated today.
C4_NeverShrinks ==
    [][ /\ DatesOf(file.items) \subseteq DatesOf(file'.items)
        /\ LET added == RealOf(file') \ RealOf(file)
           IN  /\ Cardinality(added) <= 1
               /\ \A x \in added : x = Candidate /\ x.date = clock ]_vars

\* a later run has replaced the snapshot of its day; other real days are kept
C4_Witness ==
    /\ pc = "chart"
    /\ is_valid
    /\ run_no >= 3
    /\ last_snapshot # <<>>
    /\ last_snapshot[1].date = Candidate.date
    /\ last_snapshot # current_snapshot
    /\ Cardinality(RealOf(file)) >= 2

\* C5: validate_snapshot accepts a candidate whose total is at least the
\* previous total, and one whose drop is at most 50000 and at most 10% of the
\* previous total.
C5_AcceptsSmallDrop ==
    ( pc = "returned" /\ previous_snapshot # <<>> )
    => LET curr == LinesTotal(Candidate)
           prev == LinesTotal(previous_snapshot[1])
       IN  ( curr >= prev
             \/ ( prev - curr <= 50000 /\ 10 * (prev - curr) <= prev ) )
           => is_valid

\* a drop of exactly 50000 that is exactly 10%, accepted
C5_Witness ==
    /\ pc = "returned"
    /\ previous_snapshot # <<>>
    /\ LinesTotal(previous_snapshot[1]) = 500000
    /\ LinesTotal(Candidate) = 450000
    /\ is_valid

\* C6: the validate step compares the candidate with the snapshot of the
\* latest date other than the candidate's, and accepts when there is none.
C6_BaselineSkipsToday ==
    [][ pc = "validate"
        => LET others == {x \in Range(history) : x.date # Candidate.date}
           IN  IF others = {}
               THEN previous_snapshot' = <<>> /\ is_valid'
               ELSE LET latest == CHOOSE x \in others :
                                     \A y \in others : y.date <= x.date
                    IN  /\ previous_snapshot' = <<latest>>
                        /\ is_valid' = ~SuspiciousDrop(LinesTotal(Candidate),
                                                       LinesTotal(latest)) ]_vars

\* accepted although the snapshot already stored for the candidate's day would
\* have made it a suspicious drop
C6_Witness ==
    /\ pc = "save"
    /\ is_valid
    /\ \E x \in Range(file.items) :
          /\ x.date = Candidate.date
          /\ SuspiciousDrop(LinesTotal(Candidate), LinesTotal(x))

\* C7: a run whose candidate is the candidate of the run before it saves the
\* file it found; after an accepted candidate is saved, the file holds exactly
\* one snapshot of its date, the candidate.
C7_Idempotent ==
    /\ [][ (pc = "save" /\ current_snapshot = last_snapshot) => file' = file ]_vars
    /\ []( (pc = "chart" /\ is_valid)
           => {x \in Range(file.items) : x.date = Candidate.date} = {Candidate}
              /\ Cardinality({i \in 1..Len(file.items) :
                                 file.items[i].date = Candidate.date}) = 1 )

\* the same accepted candidate saved a second time
C7_Witness ==
    /\ pc = "chart"
    /\ is_valid
    /\ current_snapshot = last_snapshot

\* C8: load_history never raises; it returns the empty list for an absent
\* file, and prints the warning and returns the empty list for every
\* malformed content.
C8_LoadNeverRaises ==
    /\ pc # "crashed"
    /\ pc = "build"
       => (file.kind \in {"absent"} \cup MalformedKinds => history = <<>>)
    /\ (pc = "backfill" /\ file.kind \in MalformedKinds) => warned

\* what Project needs to take its step: two snapshots and a choice of tracked
\* languages.  The values it assigns are defined for every such history.
ProjectEnabled == pc = "chart" /\ Len(history) >= 2 /\ select_langs(history) # {}

\* what RenderHistory needs to draw the chart: the two data points and the
\* forecast.  The chart is defined for every such history.
RenderEnabled == pc = "render" /\ Len(history) >= 2 /\ forecast # <<>>

\* what GenerateMilestones needs to draw the timeline: a history file that
\* loads.  The timeline is defined for every history.
MilestonesEnabled == pc = "milestones" /\ ~load_history(file).raised

\* C9: a run that rejected its candidate goes on: it can always take its next
\* step, and when it is over it has saved the history, written history.svg
\* from the history it kept, and run generate_milestones and
\* generate_achievements.
C9_RejectedRunGoesOn ==
    Rejected
    => /\ pc \notin {"done", "chart", "render", "milestones"} => ENABLED Next
       /\ pc = "chart" => ENABLED Placeholder \/ ProjectEnabled
       /\ pc = "render" => RenderEnabled
       /\ pc = "milestones" => MilestonesEnabled
       /\ pc \in {"chart", "render", "milestones", "achievements", "done"}
          => saved /\ file = JsonDump(history)
       /\ pc \in {"milestones", "achievements", "done"}
          => /\ history_svg.kind \in {"chart", "placeholder"}
             /\ history_svg.dates = [i \in 1..Len(history) |-> history[i].date]
       /\ pc \in {"achievements", "done"} => milestones_svg.kind = "timeline"
       /\ pc = "done" => achievements_svg.kind = "badges"

\* a run that rejected its candidate is over
C9_Witness ==
    /\ pc = "done"
    /\ ~is_valid
    /\ saved
    /\ history_svg.kind = "chart"

\* C10: backfill_from_api_data is called only on an empty loaded history, and
\* from the second run on no step adds a synthetic snapshot to the file.
C10_BackfillOnlyFirstRun ==
    [][ /\ (backfilled' /\ ~backfilled)
           => (pc = "backfill" /\ history = <<>> /\ load_history(file).result = <<>>)
        /\ run_no >= 2 => SyntheticOf(file') \subseteq SyntheticOf(file) ]_vars

\* a later run is over whose snapshot has a month the file has no synthetic
\* snapshot for
C10_Witness ==
    /\ pc = "done"
    /\ run_no >= 2
    /\ ~backfilled
    /\ SyntheticOf(file) # {}
    /\ \E w \in DOMAIN Candidate.lines_changed_by_week :
          SynthDate(MonthKey(w)) \notin DatesOf(file.items)

\* C11: called with no existing dates on a snapshot whose weekly pairs are
\* non-negative and fall in k calendar months, backfill_from_api_data returns
\* exactly k snapshots, one per month in ascending order, each dated the 28th
\* of its month and synthetic, whose lines_added and lines_deleted are the
\* sums of the weeks up to and including that month, hence non-decreasing.
C11_BackfillCoverage ==
    pc = "backfill_returned"
    => LET weekly == Candidate.lines_changed_by_week
           months == {MonthKey(w) : w \in DOMAIN weekly}
           UpTo(m) == {w \in DOMAIN weekly : MonthKey(w) <= m}
           adds == [w \in DOMAIN weekly |-> weekly[w][1]]
           dels == [w \in DOMAIN weekly |-> weekly[w][2]]
       IN  /\ Len(history) = Cardinality(months)
           /\ {MonthKey(history[i].date) : i \in 1..Len(history)} = months
           /\ StrictlyAscending(history)
           /\ \A i \in 1..Len(history) :
                 /\ history[i].synthetic
                 /\ history[i].date % 100 = 28
                 /\ history[i].lines_added
                      = SumSet(UpTo(MonthKey(history[i].date)), adds)
                 /\ history[i].lines_deleted
                      = SumSet(UpTo(MonthKey(history[i].date)), dels)
           /\ \A i \in 1..(Len(history) - 1) :
                 /\ history[i].lines_added <= history[i + 1].lines_added
                 /\ history[i].lines_deleted <= history[i + 1].lines_deleted

\* three months, the first of them with two weeks, and totals that grow
C11_Witness ==
    /\ pc = "backfill_returned"
    /\ Len(history) = 3
    /\ {20231204, 20231225} \subseteq DOMAIN Candidate.lines_changed_by_week
    /\ history[1].lines_added = 13
    /\ history[2].lines_added > history[1].lines_added
    /\ history[3].lines_deleted > history[2].lines_deleted

\* C12: the forecast is never persisted.  The file changes only in the save
\* step, which comes before the forecast of the run is computed and writes
\* only snapshots that were loaded, backfilled from the candidate, or are the
\* candidate; computing the forecast and rendering leave the list `history`
\* and the file as they are; and once the forecast is computed, the file has
\* no entry with a forecast date.
C12_ForecastNotPersisted ==
    /\ [][ /\ file' # file
              => /\ pc = "save" /\ forecast = <<>> /\ forecast' = <<>>
                 /\ Range(file'.items) \subseteq
                        Range(load_history(file).result)
                        \cup Range(backfill_from_api_data(Candidate, {}))
                        \cup {Candidate}
           /\ (forecast' # forecast /\ forecast' # <<>>)
              => saved /\ history' = history /\ file' = file
           /\ pc = "render" => history' = history /\ file' = file ]_vars
    /\ []( forecast # <<>>
           => /\ Len(forecast[1].dates) = 2
              /\ \A k \in 1..2 : /\ forecast[1].dates[k] > Last(history).date
                                 /\ forecast[1].dates[k] \notin DatesOf(file.items) )

\* a run is over that drew a chart with two forecast dates, and the file is
\* the real history
C12_Witness ==
    /\ pc = "done"
    /\ forecast # <<>>
    /\ history_svg.kind = "chart"
    /\ history_svg.forecast_dates = forecast[1].dates
    /\ file = JsonDump(history)
    /\ \E k \in 1..2 : forecast[1].points[k].adds > Last(monthly_adds_series(history))

\* the order of the stages of one run
RunOrder ==
    { <<"idle", "build">>, <<"done", "build">>,
      <<"build", "backfill">>, <<"backfill", "validate">>,
      <<"validate", "save">>, <<"save", "chart">>,
      <<"chart", "render">>, <<"chart", "milestones">>,
      <<"render", "milestones">>, <<"milestones", "achievements">>,
      <<"achievements", "done">> }

\* C13: the stages of a run follow one another in the order load, backfill
\* (on an empty history only), validate/upsert, save, project, render,
\* milestones, achievements; generate_milestones and generate_achievements
\* run after the save of the same run and read the history it wrote.
C13_StepOrder ==
    /\ [][ /\ pc' # pc => <<pc, pc'>> \in RunOrder
           /\ (backfilled' /\ ~backfilled) => pc = "backfill" /\ history = <<>>
           /\ (saved' /\ ~saved) => pc = "save"
           /\ forecast' # forecast /\ forecast' # <<>> => pc = "chart" /\ saved
           /\ history_svg' # history_svg /\ history_svg'.kind = "chart"
              => pc = "render" /\ forecast # <<>>
           /\ pc = "milestones"
              => /\ saved /\ file = JsonDump(history)
                 /\ history_svg.kind \in {"chart", "placeholder"}
                 /\ milestones_svg'.dates = [i \in 1..Len(history) |-> history[i].date]
           /\ pc = "achievements"
              => /\ saved /\ file = JsonDump(history)
                 /\ milestones_svg.kind = "timeline"
                 /\ achievements_svg'.dates
                      = [i \in 1..Len(history) |-> history[i].date] ]_vars

\* a later run that accepted its candidate is over, and both cards show the
\* candidate's date
C13_Witness ==
    /\ pc = "done"
    /\ run_no >= 2
    /\ is_valid
    /\ forecast # <<>>
    /\ Candidate.date \in Range(milestones_svg.dates)
    /\ Candidate.date \in Range(achievements_svg.dates)
    /\ last_snapshot # <<>> /\ last_snapshot[1].date < Candidate.date

\* the forecast the projection step has computed, and what it read
Projected == pc = "projected"

Fc == forecast[1]

RealAdds == monthly_adds_series(history)

RealDels == monthly_dels_series(history)

RealStars == stars_series(history)

\* days from the last real date to the k-th forecast date
ForecastOffset(k) == DaysBetween(Last(history).date, Fc.dates[k])

\* max(0, int(base + steps * slope))
CountAt(base, steps, slope) ==
    Max(0, Trunc(RAdd(RInt(base), RMul(steps, slope))))

\* C14 as stated: the k-th forecast value of a count is
\* max(0, base_value + k * slope) (cut to a whole number as the series are),
\* and additions 1000 then 1500 are projected to 2000 and 2500.
C14_ForecastPerPoint ==
    Projected
    => /\ \A k \in 1..2 :
            /\ Fc.points[k].adds
                 = CountAt(Last(RealAdds), RInt(k), Fc.avg_delta_adds)
            /\ Fc.points[k].dels
                 = CountAt(Last(RealDels), RInt(k), Fc.avg_delta_dels)
            /\ Fc.points[k].stars
                 = CountAt(Last(RealStars), RInt(k), Fc.stars_slope)
       /\ RealAdds = <<1000, 1500>>
          => Fc.points[1].adds = 2000 /\ Fc.points[2].adds = 2500

\* C14, amended: the k-th forecast value of a count is
\* max(0, int(base_value + k * h1_steps * slope)), where slope is the
\* per-snapshot least-squares slope (floored at 0 for additions and
\* deletions) and h1_steps the horizon in snapshot steps, the horizon in days
\* divided by the average gap in days; additions 1000 then 1500 dated 31 days
\* apart are projected to 1725 and 1951.
C14_ForecastPerHorizon ==
    Projected
    => /\ Fc.h1_steps = RDiv(Fc.h1_days, Fc.avg_step_days)
       /\ Fc.avg_step_days
            = RMax(RInt(1), Rat(DaysBetween(history[1].date, Last(history).date),
                                Len(history) - 1))
       /\ Len(history) = 2
          => /\ Fc.avg_delta_adds = RInt(Max(0, RealAdds[2] - RealAdds[1]))
             /\ Fc.avg_delta_dels = RInt(Max(0, RealDels[2] - RealDels[1]))
             /\ Fc.stars_slope = RInt(RealStars[2] - RealStars[1])
       /\ \A k \in 1..2 :
            LET steps == RMul(RInt(k), Fc.h1_steps)
            IN  /\ Fc.points[k].adds
                     = CountAt(Last(RealAdds), steps, Fc.avg_delta_adds)
                /\ Fc.points[k].dels
                     = CountAt(Last(RealDels), steps, Fc.avg_delta_dels)
                /\ Fc.points[k].stars
                     = CountAt(Last(RealStars), steps, Fc.stars_slope)
       /\ ( RealAdds = <<1000, 1500>>
            /\ DaysBetween(history[1].date, history[2].date) = 31 )
          => Fc.points[1].adds = 1725 /\ Fc.points[2].adds = 1951

\* additions 1000 then 1500, 31 days apart: slope 500, horizon 14 days
C14_Witness ==
    /\ Projected
    /\ RealAdds = <<1000, 1500>>
    /\ DaysBetween(history[1].date, history[2].date) = 31
    /\ Fc.avg_delta_adds = RInt(500)
    /\ Fc.h1_steps = Rat(14, 31)
    /\ Fc.points[1].adds = 1725
    /\ Fc.points[2].adds = 1951
    /\ Fc.points[2].stars = 0

\* C15 as stated: two forecast points, h and 2h days after the last real
\* date, for a horizon h of 14 to 365 days.
C15_HorizonTwice ==
    Projected
    => /\ Len(Fc.dates) = 2 /\ Len(Fc.points) = 2
       /\ \E h \in MIN_FORECAST_DAYS..MAX_FORECAST_DAYS :
             ForecastOffset(1) = h /\ ForecastOffset(2) = 2 * h

\* C15, amended: for every history of at least 2 real points there are
\* exactly two forecast points; the horizon h, a number of days that need not
\* be whole, lies in [14, 365], and the points are dated int(h) and int(2h)
\* days after the last real date, so the second offset is twice the first or
\* one day more.
C15_HorizonTruncated ==
    Projected
    => /\ Len(Fc.dates) = 2 /\ Len(Fc.points) = 2
       /\ RLeq(RInt(MIN_FORECAST_DAYS), Fc.h1_days)
       /\ RLeq(Fc.h1_days, RInt(MAX_FORECAST_DAYS))
       /\ ForecastOffset(1) = Trunc(Fc.h1_days)
       /\ ForecastOffset(2) = Trunc(RMul(RInt(2), Fc.h1_days))
       /\ ForecastOffset(1) \in MIN_FORECAST_DAYS..MAX_FORECAST_DAYS
       /\ ForecastOffset(2) - 2 * ForecastOffset(1) \in {0, 1}

\* a horizon of 16.5 days (0.3 steps of 55 days): the points are 16 and 33
\* days after the last real date
C15_Witness ==
    /\ Projected
    /\ Fc.h1_days = Rat(33, 2)
    /\ ForecastOffset(1) = 16
    /\ ForecastOffset(2) = 33

\* C16: the two forecast values of additions, and of deletions, satisfy
\* forecast(2h) >= forecast(h) >= last real value, whatever the real series.
C16_ForecastMonotone ==
    Projected
    => /\ Fc.points[2].adds >= Fc.points[1].adds
       /\ Fc.points[1].adds >= Last(RealAdds)
       /\ Fc.points[2].dels >= Fc.points[1].dels
       /\ Fc.points[1].dels >= Last(RealDels)
       /\ RLeq(RInt(0), Fc.avg_delta_adds)
       /\ RLeq(RInt(0), Fc.avg_delta_dels)

\* a series that went down (its least-squares slope is negative) forecast at
\* its last value, next to one that grows
C16_Witness ==
    /\ Projected
    /\ Len(history) = 3
    /\ RealAdds = <<1500, 1500, 1000>>
    /\ RLess(linreg_slope(RealAdds), RInt(0))
    /\ Fc.points[1].adds = 1000 /\ Fc.points[2].adds = 1000
    /\ RealStars = <<0, 0, 5>>
    /\ Fc.points[2].stars > Fc.points[1].stars

IsConstant(ys) == \A i \in 1..Len(ys) : ys[i] = ys[1]

\* the share of a tracked language in the last real snapshot
LastProp(lang) == RInt(Last(lang_series(history, lang)))

\* sum of the tracked languages' shares in the last real snapshot
RealTotal == RSumSet(top_langs, [lang \in top_langs |-> LastProp(lang)])

\* sum of the tracked languages' shares at the k-th forecast point
ForecastTotal(k) == RSumSet(top_langs, Fc.points[k].langs)

\* the tracked languages' extrapolations at the k-th forecast point, each
\* floored at 0, before they are rescaled
RawProp(k) ==
    [ lang \in top_langs |->
        RMax(RInt(0), RAdd(LastProp(lang),
                           RMul(RMul(RInt(k), Fc.h1_steps), Fc.lang_trends[lang]))) ]

\* the factor the extrapolations are rescaled by
Scale(k) ==
    LET raw_total == RSumSet(top_langs, RawProp(k))
    IN  IF RLess(RInt(0), raw_total) /\ RLess(RInt(0), RealTotal)
        THEN RDiv(RealTotal, raw_total) ELSE RInt(1)

\* the least-squares slope is 0 on the sequences of fewer than 2 points and on
\* the constant ones among the series of the history and their prefixes
SlopeZeroOnFlat ==
    \A ys \in {RealAdds, RealDels, RealStars}
              \cup {lang_series(history, lang) : lang \in top_langs} :
       \A j \in 0..Len(ys) :
          (j < 2 \/ IsConstant(SubSeq(ys, 1, j)))
          => linreg_slope(SubSeq(ys, 1, j)) = RInt(0)

\* a constant series of a count is forecast at its last value
FlatCountsStay ==
    \A k \in 1..2 :
       /\ IsConstant(RealAdds) => Fc.points[k].adds = Last(RealAdds)
       /\ IsConstant(RealDels) => Fc.points[k].dels = Last(RealDels)
       /\ IsConstant(RealStars) => Fc.points[k].stars = Last(RealStars)

C18_ProportionsConserved ==
    Projected => \A k \in 1..2 : ForecastTotal(k) = RealTotal

\* the languages that are among the 5 largest of at least one snapshot
EverTop5 ==
    { name \in LangNames(history) :
        \E i \in 1..Len(history) :
           LET langs == history[i].languages
           IN  /\ name \in DOMAIN langs
               /\ Cardinality({o \in DOMAIN langs :
                                  langs[o].size > langs[name].size}) < 5 }

\* C19: every language that was among the top 5 by size within at least one
\* snapshot of the history is in the tracked language set.
C19_SpikesKept ==
    pc = "selected" => EverTop5 \subseteq top_langs

\* the contributions metric at the i-th snapshot of the file: per year the
\* largest value a snapshot up to the i-th reports, summed over the years
ContribsAt(i) ==
    LET years == UNION {DOMAIN file.items[j].contributions_by_year : j \in 1..i}
        best == [ yr \in years |->
                    CHOOSE v \in {file.items[j].contributions_by_year[yr] :
                                    j \in {k \in 1..i :
                                        yr \in DOMAIN file.items[k].contributions_by_year}} :
                       \A j \in 1..i :
                          yr \in DOMAIN file.items[j].contributions_by_year
                          => file.items[j].contributions_by_year[yr] <= v ]
    IN  SumSet(years, best)

MetricAt(metric, i) ==
    CASE metric = "Contributions" -> ContribsAt(i)
      [] metric = "Stars" -> file.items[i].stargazers
      [] metric = "Repos" -> file.items[i].repo_count

Ladder ==
    {<<thr, "Contributions">> : thr \in {100, 250, 500, 1000, 1500, 2000, 2500}}
    \cup {<<thr, "Stars">> : thr \in {1, 5, 10, 20, 30, 50}}
    \cup {<<thr, "Repos">> : thr \in {5, 10, 25, 50}}

\* the positions of the snapshots at which the metric of a label is at or
\* above its threshold
Meeting(label) ==
    {i \in 1..Len(file.items) : MetricAt(label[2], i) >= label[1]}

\* C20: the milestones have at most one entry per threshold label; a label
\* has an entry exactly when some snapshot meets its threshold, and the
\* entry's date is the date of the first such snapshot.
C20_MilestonesFirstCrossing ==
    pc = "milestones_done"
    => LET entries == milestones_svg.entries
       IN  /\ \A i, j \in 1..Len(entries) :
                 entries[i].label = entries[j].label => i = j
           /\ \A i \in 1..Len(entries) : entries[i].label \in Ladder
           /\ \A label \in Ladder :
                 IF Meeting(label) = {}
                 THEN \A i \in 1..Len(entries) : entries[i].label # label
                 ELSE \E i \in 1..Len(entries) :
                        /\ entries[i].label = label
                        /\ \E first \in Meeting(label) :
                              /\ \A other \in Meeting(label) : first <= other
                              /\ entries[i].date = file.items[first].date

\* two snapshots both at or above 100 contributions, the first reaching it by
\* the sum of the yearly maxima; 5 stars met exactly, at the second snapshot
C20_Witness ==
    /\ pc = "milestones_done"
    /\ Len(file.items) = 3
    /\ Meeting(<<100, "Contributions">>) = {2, 3}
    /\ file.items[1].contributions_by_year = (2023 :> 60)
    /\ file.items[2].contributions_by_year = (2024 :> 60)
    /\ Meeting(<<5, "Stars">>) = {2}
    /\ Cardinality({i \in 1..Len(milestones_svg.entries) :
                       milestones_svg.entries[i].label = <<100, "Contributions">>}) = 1
    /\ \E i \in 1..Len(milestones_svg.entries) :
          /\ milestones_svg.entries[i].label = <<100, "Contributions">>
          /\ milestones_svg.entries[i].date = file.items[2].date


\* the stored history in the order generate_milestones walks it
Walked == SortByDate(file.items)

\* per year the largest count that one of the first i walked snapshots
\* reports, summed over the years
SumOfYearMaxima(i) ==
    LET reports(yr) == {Walked[j].contributions_by_year[yr] :
                          j \in {k \in 1..i :
                                   yr \in DOMAIN Walked[k].contributions_by_year}}
        years == UNION {DOMAIN Walked[j].contributions_by_year : j \in 1..i}
        best == [ yr \in years |->
                    CHOOSE v \in reports(yr) : \A w \in reports(yr) : w <= v ]
    IN  SumSet(years, best)

\* total_contribs of the loop of generate_milestones at the i-th snapshot
TotalContribsAt(i) == MilestoneScan(Walked, i).prev_total_contribs

\* C21: at every snapshot the contribution total of generate_milestones is
\* the sum over the years of the largest count seen for the year up to that
\* snapshot; the total never decreases along the dates, and it is the value
\* a contributions milestone shows.
C21_TotalIsSumOfYearMaxima ==
    pc = "milestones_done"
    => /\ \A i \in 1..Len(Walked) :
             /\ TotalContribsAt(i) = SumOfYearMaxima(i)
             /\ i > 1 => TotalContribsAt(i) >= TotalContribsAt(i - 1)
       /\ \A e \in 1..Len(milestones_svg.entries) :
             milestones_svg.entries[e].label[2] = "Contributions"
             => \E i \in 1..Len(Walked) :
                   /\ Walked[i].date = milestones_svg.entries[e].date
                   /\ milestones_svg.entries[e].value = SumOfYearMaxima(i)

\* the second snapshot reports less for 2023 than the first and the total
\* stays at the first one's 120, which the 100 contributions milestone shows
C21_Witness ==
    /\ pc = "milestones_done"
    /\ Len(Walked) >= 2
    /\ Walked[1].contributions_by_year = (2023 :> 120) @@ (2024 :> 30)
    /\ Walked[2].contributions_by_year = (2023 :> 60)
    /\ TotalContribsAt(1) = 150
    /\ TotalContribsAt(2) = 150
    /\ \E e \in 1..Len(milestones_svg.entries) :
          /\ milestones_svg.entries[e].label = <<100, "Contributions">>
          /\ milestones_svg.entries[e].value = 150


\* C22: after the history was sorted and saved, a history of fewer than 2
\* data points makes generate_history write the placeholder, compute no
\* forecast and return to main, which goes on to generate_milestones; the
\* saved file holds the history.  A history of 2 or more points gets its
\* forecast and then the chart.
C22_PlaceholderBelowTwoPoints ==
    [][ /\ (pc = "chart" /\ Len(history) < 2)
           => /\ saved /\ file = JsonDump(history)
              /\ pc' = "milestones"
              /\ history_svg'.kind = "placeholder"
              /\ forecast' = <<>> /\ forecast = <<>>
              /\ UNCHANGED <<file, history>>
        /\ (pc = "chart" /\ Len(history) >= 2)
           => /\ saved /\ file = JsonDump(history)
              /\ pc' = "render"
              /\ forecast' # <<>>
        /\ pc = "render"
           => /\ Len(history) >= 2
              /\ pc' = "milestones"
              /\ history_svg'.kind = "chart"
              /\ UNCHANGED <<file, history>> ]_vars

\* a first run without weekly data: the history is today's snapshot alone
\* and history.svg is the placeholder
C22_Witness ==
    /\ pc = "milestones"
    /\ Len(history) = 1
    /\ saved
    /\ file = JsonDump(history)
    /\ history_svg.kind = "placeholder"
    /\ forecast = <<>>


\* C23: the repo_count of the synthetic snapshots goes from 1 at the first
\* month up to the current snapshot's repo_count at the last month and never
\* falls in between, for a snapshot of at least one repository (weekly data
\* comes from repositories) and weeks in two or more months.
C23_RepoCountRamp ==
    (pc = "backfill_returned" /\ Len(history) >= 2 /\ Candidate.repo_count >= 1)
    => /\ history[1].repo_count = 1
       /\ Last(history).repo_count = Candidate.repo_count
       /\ \A i \in 1..(Len(history) - 1) :
             history[i].repo_count <= history[i + 1].repo_count


\* C24: the chart shows the x-axis label of the last real data point and of
\* both forecast points.
C24_EndLabelsShown ==
    history_svg.kind = "chart"
    => LET n_real == Len(history_svg.dates)
       IN  {n_real - 1, n_real, n_real + 1} \subseteq Range(history_svg.x_labels)


\* C25: in the stored history no real snapshot is a suspicious drop from the
\* snapshot right before it by date: its line total is not below that one's
\* by more than 50000 or by more than 10% of it.
C25_NoSuspiciousDropStored ==
    \A i \in 2..Len(file.items) :
        ~file.items[i].synthetic
        => ~SuspiciousDrop(LinesTotal(file.items[i]), LinesTotal(file.items[i - 1]))


\* the snapshots the backfill of this run added to the list
Backfilled == SelectSeq(history, LAMBDA snap : snap.synthetic)

\* C26: in a first run the candidate built by build_snapshot is validated
\* against the last backfilled snapshot that is not dated today (against
\* nothing when there is none), it is accepted, and the history saved by the
\* run holds it under today's date.
C26_FirstRunAccepted ==
    [][ /\ (pc = "validate" /\ backfilled)
           => /\ previous_snapshot' = find_previous(Backfilled, Candidate.date)
              /\ is_valid'
              /\ Candidate \in Range(history')
        /\ (pc = "save" /\ backfilled)
           => /\ is_valid
              /\ \E i \in 1..Len(file'.items) :
                    /\ file'.items[i] = Candidate
                    /\ file'.items[i].date = clock
                    /\ ~file'.items[i].synthetic ]_vars

\* a first run on the 10th whose backfill ends with the 28th of the same
\* month: the candidate equals that snapshot's totals, is accepted and stored
C26_Witness ==
    /\ pc = "chart"
    /\ backfilled
    /\ is_valid
    /\ previous_snapshot # <<>>
    /\ previous_snapshot[1].synthetic
    /\ previous_snapshot[1].date > Candidate.date
    /\ LinesTotal(previous_snapshot[1]) = LinesTotal(Candidate)
    /\ LinesTotal(Candidate) > 0
    /\ Candidate \in Range(file.items)


\* the repositories get_stats is to count: those of any page, but for the
\* excluded ones
ListedRepos ==
    UNION {{result_pages[i][k] : k \in 1..Len(result_pages[i])} :
            i \in 1..Len(result_pages)} \ stats.exclude_repos

\* the size of one language in one repository
SizeIn(name_with_owner, lang) ==
    LET edges == RepoNode(name_with_owner).languages
        of_lang == {k \in 1..Len(edges) : edges[k][1] = lang}
    IN  SumSet(of_lang, [k \in of_lang |-> edges[k][2]])

\* the languages of the listed repositories
ListedLanguages ==
    UNION {{RepoNode(r).languages[k][1] : k \in 1..Len(RepoNode(r).languages)} :
            r \in ListedRepos}

\* each listed repository counted once in the four accumulators
CountedOnce(stargazers, forks, languages, repos) ==
    /\ stargazers # <<>> =>
         stargazers[1] =
            SumSet(ListedRepos, [r \in ListedRepos |-> RepoNode(r).stargazers])
    /\ forks # <<>> =>
         forks[1] =
            SumSet(ListedRepos, [r \in ListedRepos |-> RepoNode(r).forkCount])
    /\ repos # <<>> => repos[1] = ListedRepos
    /\ languages # <<>> =>
         /\ DOMAIN languages[1] = ListedLanguages
         /\ \A l \in ListedLanguages :
               languages[1][l].size =
                  SumSet(ListedRepos, [r \in ListedRepos |-> SizeIn(r, l)])

\* C27: once a task's own call of get_stats has returned, what the task has
\* read of stargazers, forks, languages and repos, and what the object holds
\* from then on, counts every listed repository exactly once, whatever the
\* other task's call did in between.
C27_ConcurrentGetStatsCountsOnce ==
    \A t \in TaskNames :
        (tasks[t].called /\ tasks[t].pc \in {"contributions", "done"})
        => /\ CountedOnce(tasks[t].read.stargazers, tasks[t].read.forks,
                          tasks[t].read.languages, tasks[t].read.repos)
           /\ CountedOnce(stats.stargazers, stats.forks,
                          stats.languages, stats.repos)
           /\ stats.stargazers # <<>> /\ stats.repos # <<>>

\* both tasks called get_stats, both have finished; there were two pages, one
\* repository on both of them and an excluded one among them, whose stars
\* and Python are not counted
C27_Witness ==
    /\ \A t \in TaskNames : tasks[t].called /\ tasks[t].pc = "done"
    /\ Len(result_pages) = 2
    /\ result_pages[1] = <<"u/a", "u/b">>
    /\ result_pages[2] = <<"u/a", "o/c">>
    /\ stats.exclude_repos = {"u/b"}
    /\ tasks["generate_overview"].read.stargazers = <<5>>
    /\ tasks["generate_overview"].read.repos = <<{"u/a", "o/c"}>>
    /\ tasks["generate_languages"].read.languages[1]["Python"].size = 100


\* the waits of a call that met 202 on every turn: 5, 10, 20, ... seconds,
\* one after each turn but the last
BackoffSleeps == [k \in 1..(max_retries - 1) |-> 5 * (2 ^ (k - 1))]

\* C28: query_rest returns within max_retries turns of its loop; if every
\* answer was a 202 it has slept 5 * 2^attempt seconds after each turn but
\* the last and returns an empty dict; and an answer with status 204, 403 or
\* any other status that is neither 200 nor 202 makes it return an empty dict
\* at once, without another turn.
C28_QueryRestTerminates ==
    /\ rest.attempts <= max_retries
    /\ rest.attempts = max_retries => rest.pc = "returned"
    /\ (rest.pc = "returned" /\ rest.only_202)
       => /\ rest.attempts = max_retries
          /\ rest.sleeps = BackoffSleeps
          /\ rest.result = <<"dict()">>
    /\ (rest.last # <<>> /\ rest.last[1].status \notin {200, 202})
       => /\ rest.pc = "returned"
          /\ rest.result = <<"dict()">>


\* the cumulative sizes of the languages of the history
CumulativeSizes == lang_totals(history)

\* no two languages have the same cumulative size
DistinctCumulativeSizes ==
    \A a, b \in LangNames(history) :
        a # b => CumulativeSizes[a] # CumulativeSizes[b]

\* the languages with fewer than 8 languages above them by cumulative size
LargestByCumulativeSize ==
    { name \in LangNames(history) :
        Cardinality({o \in LangNames(history) :
                        CumulativeSizes[o] > CumulativeSizes[name]})
            < MAX_CHART_LANGS }

\* C29: the tracked language set has at most 8 members, and when the
\* cumulative sizes are pairwise distinct it is the set of the 8 languages
\* with the largest cumulative size (all languages, if there are fewer than
\* 8), whatever the per-snapshot top 5 added to the candidates.
C29_TrackedAreLargestEight ==
    pc = "selected"
    => /\ Cardinality(top_langs) <= MAX_CHART_LANGS
       /\ DistinctCumulativeSizes => top_langs = LargestByCumulativeSize

\* nine languages with distinct cumulative sizes, one of them in the top 5
\* of a snapshot and the smallest overall: eight are tracked, without it
C29_Witness ==
    /\ pc = "selected"
    /\ DistinctCumulativeSizes
    /\ Cardinality(LangNames(history)) = 9
    /\ Cardinality(top_langs) = 8
    /\ \E name \in EverTop5 : name \notin LargestByCumulativeSize
    /\ top_langs = LargestByCumulativeSize


\* a first run whose backfill had at least one month to work on, after
\* generate_milestones
FirstRunBackfilled ==
    /\ run_no = 1
    /\ pc \in {"achievements", "done"}
    /\ backfilled
    /\ DOMAIN Candidate.lines_changed_by_week # {}

\* the contribution and star thresholds the current snapshot's values meet
MetByCurrent ==
    { label \in Ladder :
        \/ /\ label[2] = "Contributions"
           /\ SumSet(DOMAIN Candidate.contributions_by_year,
                     Candidate.contributions_by_year) >= label[1]
        \/ /\ label[2] = "Stars"
           /\ Candidate.stargazers >= label[1] }

WeeksBeforeThisMonth ==
    \E w \in DOMAIN Candidate.lines_changed_by_week :
        MonthKey(w) < MonthKey(Candidate.date)

====
